---- MODULE Spec2Model ----
(***************************************************************************)
(* hardlinkable: the per-device inode consolidation engine.                *)
(*                                                                         *)
(* FSDev.findIdenticalFiles (src/fsdev.go) ingests one walked pathname at  *)
(* a time and maintains the bucket map, the inode maps, the linked-inode   *)
(* adjacency and the digest index.  fsDev.SortedLinks / sendLinkedPairs    *)
(* (src/unnamed/part_004) then plans the (src, dst) link pairs.            *)
(*                                                                         *)
(* The filesystem is fixed for a run (spec section 5: no external          *)
(* mutation during a run): every inode has one stat, one content, one      *)
(* xattr value and is either readable or not.  It is chosen in Init.       *)
(***************************************************************************)
EXTENDS Integers, Sequences, FiniteSets, TLC

VARIABLES
    disk,            \* the filesystem: ino -> [dev, stat, xattr, content, readable]
    tree,            \* the walked tree: pathname -> [Ino, Filename]
    MyOptions,       \* the run's Options
    MaxNLinks,       \* FSDev.MaxNLinks
    hashed,          \* the metadata hashes computed for inodes: ino -> hashes
    FSDevs,          \* Linkable.FSDevs: dev -> the pathnames handed to its FSDev
    linker,          \* the link step: its position, the pair it links, its error
    validated,       \* the Options handed to Validate, before and after its calls
    run,             \* Run's walk: its size options, its file counters, what it ingested
    sets,            \* three inode Sets, what was added to them, and their combinations
    InoHashes,       \* FSDev.InoHashes      : Hash -> InoSet
    InoStatInfo,     \* FSDev.InoStatInfo    : Ino -> StatInfo
    InoPaths,        \* FSDev.InoPaths       : Ino -> (filename -> <<Pathsplit>>)
    LinkedInos,      \* FSDev.LinkedInos     : Ino -> InoSet
    DigestIno,       \* FSDev.DigestIno      : Digest -> InoSet
    InosWithDigest,  \* FSDev.InosWithDigest : InoSet
    Stats,           \* the statistics counters
    walked,          \* pathnames the walker has already delivered
    pc,              \* where the run is: "walk", then the planner's position
    linkedRemaining, \* linkedInoSets: its remainingInos (keys not yet consumed)
    sortedInos,      \* sendLinkedPairs: sortedInos
    remainingInos,   \* sendLinkedPairs: remainingInos
    srcIno,          \* sendLinkedPairs: srcIno (0 before the first)
    dstIno,          \* sendLinkedPairs: dstIno (0 before the first)
    srcSI,           \* sendLinkedPairs: srcSI
    dstSI,           \* sendLinkedPairs: dstSI
    dstPaths,        \* sendLinkedPairs: what is left of the dstPaths channel
    out              \* the pairs received from the out channel, in order

fsvars  == <<InoHashes, InoStatInfo, InoPaths, LinkedInos, DigestIno, InosWithDigest>>
envvars ==
    <<disk, tree, MyOptions, MaxNLinks, hashed, FSDevs, linker, validated, run, sets>>
planvars == <<linkedRemaining, sortedInos, remainingInos, srcIno, dstIno, srcSI, dstSI,
              dstPaths, out>>
vars == <<envvars, fsvars, Stats, walked, pc, planvars>>

-----------------------------------------------------------------------------
(* Bounds of the model *)

NumInos  == 3      \* inodes on the device
NumPaths == 4      \* pathnames in the walked tree, at most
BufSize  == 1      \* bytes read by contentDigest (8192 in the program, scaled)

Inos == 1 .. NumInos

-----------------------------------------------------------------------------
(* Small helpers for Go maps and slices *)

Put(m, k, v) == [x \in (DOMAIN m) \cup {k} |-> IF x = k THEN v ELSE m[x]]

Del(m, k) == [x \in (DOMAIN m) \ {k} |-> m[x]]

Inc(st, c) == [st EXCEPT ![c] = @ + 1]

\* InoSet.AsSlice(): a Go map is ranged over in an unspecified order, so the
\* slice is any sequence of the set's elements, each once
RECURSIVE AsSlice(_)
AsSlice(set) ==
    IF set = {} THEN {<<>>}
    ELSE UNION {{<<x>> \o rest : rest \in AsSlice(set \ {x})} : x \in set}

RECURSIVE Xor(_, _)
Xor(a, b) ==
    IF a = 0 THEN b
    ELSE IF b = 0 THEN a
    ELSE (((a % 2) + (b % 2)) % 2) + (2 * Xor(a \div 2, b \div 2))

-----------------------------------------------------------------------------
(* The filesystem as the program sees it *)

\* os.Lstat of a pathname: the StatInfo of the inode the path names
Lstat(pathname) == disk[tree[pathname].Ino].stat

\* FSDev.Dev: the device of the FSDev followed here
Dev == 1

\* Linkable.FindIdenticalFiles hands a pathname to the FSDev of the path's
\* device (Linkable.Dev): whether that is the FSDev followed here
routedHere(pathname) == disk[tree[pathname].Ino].dev = Dev

SplitPathname(pathname) == [Dirname |-> pathname, Filename |-> tree[pathname].Filename]

\* faulty variant: ContentOnly does not take the time out of the hash
InoHashTimeFlagOnly(stat, opt) ==
    IF opt.IgnoreTime
    THEN stat.Size
    ELSE Xor(Xor(stat.Size, stat.Sec), stat.Nsec)

\* faulty variant: the inode number is hashed in
InoHashWithIno(stat, opt) == Xor(stat.Size, stat.Ino)

\* InoHash: equal for potentially equal files, from inode metadata only
InoHash(stat, opt) ==
    IF opt.IgnoreTime \/ opt.ContentOnly
    THEN stat.Size
    ELSE Xor(Xor(stat.Size, stat.Sec), stat.Nsec)

\* HashIno: size ^ mtime in nanoseconds ^ permission bits ^ (uid<<32 | gid),
\* each unless ignored.  The 64-bit value is kept as <<high 32 bits, low 32
\* bits>>: sizes, times and modes of the model are below 2^31, so only the
\* uid reaches the high half.
HashIno(si, ignoreTime, ignorePerm, ignoreOwner) ==
    LET h0 == si.Size
        h1 == IF ~ignoreTime THEN Xor(h0, (si.Sec * 1000000000) + si.Nsec) ELSE h0
        h2 == IF ~ignorePerm THEN Xor(h1, si.Mode % 512) ELSE h1
    IN  IF ~ignoreOwner THEN <<si.Uid, Xor(h2, si.Gid)>> ELSE <<0, h2>>

-----------------------------------------------------------------------------
(* Content digest: FNV-1a (32 bit) over the read buffer.  A 32-bit value is *)
(* kept as <<high 16 bits, low 16 bits>>.                                   *)

\* one FNV-1a round: hash ^= byte; hash *= 16777619 (= 2^24 + 403), mod 2^32
FnvRound(h, byte) ==
    LET x     == Xor(h[2], byte)
        low   == x * 403
        high  == (h[1] * 403) + (low \div 65536) + ((x % 256) * 256)
    IN  <<high % 65536, low % 65536>>

RECURSIVE FnvWrite(_, _, _)
FnvWrite(h, buf, i) ==
    IF i > Len(buf) THEN h ELSE FnvWrite(FnvRound(h, buf[i]), buf, i + 1)

\* fnv.New32a() starts from the offset basis 2166136261 = 0x811C9DC5
Fnv32a(buf) == FnvWrite(<<33052, 40389>>, buf, 1)

\* buf := make([]byte, bufSize); f.Read(buf): the first bufSize bytes of the
\* file, the rest of the buffer left zero
ReadBuf(content) ==
    [i \in 1 .. BufSize |-> IF i <= Len(content) THEN content[i] ELSE 0]

\* contentDigest: an error when the file cannot be opened, or when Read
\* returns an error (EOF at once for an empty file); else the digest of the
\* whole buffer
contentDigest(ino) ==
    IF ~disk[ino].readable \/ Len(disk[ino].content) = 0
    THEN [err |-> TRUE,  digest |-> <<0, 0>>]
    ELSE [err |-> FALSE, digest |-> Fnv32a(ReadBuf(disk[ino].content))]

\* dg is the part of the engine a search threads through its comparisons:
\* [DigestIno, InosWithDigest, Stats]
DigestSet(dg, digest) ==
    IF digest \in DOMAIN dg.DigestIno THEN dg.DigestIno[digest] ELSE {}

\* faulty variant: the inode is not added to InosWithDigest
helperPathStatDigestUnmarked(dg, ino, digest) ==
    [dg EXCEPT !.DigestIno = Put(@, digest, DigestSet(dg, digest) \cup {ino})]

helperPathStatDigest(dg, ino, digest) ==
    [dg EXCEPT !.DigestIno = Put(@, digest, DigestSet(dg, digest) \cup {ino}),
               !.InosWithDigest = @ \cup {ino}]

addPathStatDigest(dg, ino, digest) ==
    IF ino \notin dg.InosWithDigest THEN helperPathStatDigest(dg, ino, digest) ELSE dg

\* Stats.computedDigest(), called by contentDigest when it succeeds
computedDigest(dg) == [dg EXCEPT !.Stats = Inc(@, "DigestComputedCount")]

\* faulty variant: the digest is computed again for an inode that has one
newPathStatDigestUncached(dg, ino) ==
    LET d == contentDigest(ino)
    IN  IF ~d.err THEN helperPathStatDigest(computedDigest(dg), ino, d.digest) ELSE dg

newPathStatDigest(dg, ino) ==
    IF ino \notin dg.InosWithDigest
    THEN LET d == contentDigest(ino)
         IN  IF ~d.err THEN helperPathStatDigest(computedDigest(dg), ino, d.digest) ELSE dg
    ELSE dg

-----------------------------------------------------------------------------
(* The equality oracle *)

EqualTime(s1, s2) == s1.Sec = s2.Sec /\ s1.Nsec = s2.Nsec

\* faulty variant: the modes are never compared
EqualModeSkipped(s1, s2) == TRUE

EqualMode(s1, s2) == s1.Mode = s2.Mode

\* faulty variant: the group is not compared
EqualOwnershipUidOnly(s1, s2) == s1.Uid = s2.Uid

EqualOwnership(s1, s2) == s1.Uid = s2.Uid /\ s1.Gid = s2.Gid

\* the external xattr comparator
equalXAttrs(ino1, ino2) == disk[ino1].xattr = disk[ino2].xattr

\* the error of the byte-by-byte compare: one of the two files cannot be read
areFileContentsEqualErr(ino1, ino2) == ~disk[ino1].readable \/ ~disk[ino2].readable

\* the byte-by-byte stream compare; a read error gives "not equal"
areFileContentsEqual(ino1, ino2) ==
    /\ disk[ino1].readable
    /\ disk[ino2].readable
    /\ disk[ino1].content = disk[ino2].content

\* the inode-parameter part of areFilesHardlinkable (everything before the
\* content comparison)
inodeParamsMatch(ps1, ps2) ==
    /\ ps1.Ino # ps2.Ino
    /\ ps1.Size = ps2.Size
    /\ \/ MyOptions.ContentOnly
       \/ /\ MyOptions.IgnoreTime  \/ EqualTime(ps1, ps2)
          /\ MyOptions.IgnorePerms \/ EqualMode(ps1, ps2)
          /\ MyOptions.IgnoreOwner \/ EqualOwnership(ps1, ps2)
          /\ MyOptions.IgnoreXattr \/ equalXAttrs(ps1.Ino, ps2.Ino)

\* faulty variant: the comparison is counted before the inode parameters are
\* checked
areFilesHardlinkableCountedFirst(ps1, ps2, useDigest, dg) ==
    LET dg0 == [dg EXCEPT !.Stats = Inc(@, "ComparisonCount")]
    IN  IF ~inodeParamsMatch(ps1, ps2)
        THEN [eq |-> FALSE, dg |-> dg0]
        ELSE LET dg1 == IF useDigest
                        THEN newPathStatDigest(newPathStatDigest(dg0, ps1.Ino), ps2.Ino)
                        ELSE dg0
                 eq  == areFileContentsEqual(ps1.Ino, ps2.Ino)
             IN  [eq |-> eq,
                  dg |-> IF eq THEN [dg1 EXCEPT !.Stats = Inc(@, "EqualComparisonCount")]
                               ELSE dg1]

\* faulty variant: the digests of the two inodes are registered after the
\* comparison, and only when it found the contents equal
areFilesHardlinkableDigestOnEqual(ps1, ps2, useDigest, dg) ==
    IF ~inodeParamsMatch(ps1, ps2)
    THEN [eq |-> FALSE, dg |-> dg]
    ELSE LET dg2 == [dg EXCEPT !.Stats = Inc(@, "ComparisonCount")]
             eq  == areFileContentsEqual(ps1.Ino, ps2.Ino)
             dg3 == IF useDigest
                    THEN newPathStatDigest(newPathStatDigest(dg2, ps1.Ino), ps2.Ino)
                    ELSE dg2
         IN  [eq |-> eq,
              dg |-> IF eq THEN [dg3 EXCEPT !.Stats = Inc(@, "EqualComparisonCount")]
                           ELSE dg2]

\* areFilesHardlinkable: [eq, dg], dg with the digests and counters it updates
areFilesHardlinkable(ps1, ps2, useDigest, dg) ==
    IF ~inodeParamsMatch(ps1, ps2)
    THEN [eq |-> FALSE, dg |-> dg]
    ELSE LET dg1 == IF useDigest
                    THEN newPathStatDigest(newPathStatDigest(dg, ps1.Ino), ps2.Ino)
                    ELSE dg
             dg2 == [dg1 EXCEPT !.Stats = Inc(@, "ComparisonCount")]
             eq  == areFileContentsEqual(ps1.Ino, ps2.Ino)
         IN  [eq |-> eq,
              dg |-> IF eq THEN [dg2 EXCEPT !.Stats = Inc(@, "EqualComparisonCount")]
                           ELSE dg2]

-----------------------------------------------------------------------------
(* The linked-inode graph *)

\* faulty variant: only the inodes linked to the pending ones are taken, those
\* linked to them in turn are not followed
drainPendingOneHop(pending, remaining, resultSet) ==
    [resultSet |-> resultSet \cup pending
                     \cup UNION {remaining[i] : i \in pending \cap DOMAIN remaining},
     remaining |-> [i \in DOMAIN remaining \ pending |-> remaining[i]]]

\* the worklist loop of linkedInoSet / linkedInoSets: drain the inodes
\* reachable from pending, consuming the keys of remainingInos
\* (the result set does not depend on the order pending is popped in)
RECURSIVE drainPending(_, _, _)
drainPending(pending, remaining, resultSet) ==
    IF pending = {} THEN [resultSet |-> resultSet, remaining |-> remaining]
    ELSE LET ino  == CHOOSE x \in pending : TRUE
             rest == pending \ {ino}
         IN  IF ino \in DOMAIN remaining
             THEN drainPending(rest \cup remaining[ino], Del(remaining, ino),
                               resultSet \cup {ino})
             ELSE drainPending(rest, remaining, resultSet \cup {ino})

\* faulty variant: the inodes linked to ino are not followed
linkedInoSetAlone(ino) == {ino}

\* linkedInoSet: the inodes reachable from ino over LinkedInos, ino included

linkedInoSet(ino) ==
    IF ino \notin DOMAIN LinkedInos THEN {ino}
    ELSE drainPending({ino}, LinkedInos, {}).resultSet

\* faulty variant: only ino1's set gets the new neighbour
addLinkableInosOneWay(linked, ino1, ino2) ==
    Put(linked, ino1, (IF ino1 \in DOMAIN linked THEN linked[ino1] ELSE {}) \cup {ino2})

\* faulty variant: ino2 is linked to an inode already linked to ino1, if
\* there is one, not to ino1
addLinkableInosChained(linked, ino1, ino2) ==
    LET near == IF ino1 \in DOMAIN linked /\ linked[ino1] # {}
                THEN CHOOSE n \in linked[ino1] : TRUE ELSE ino1
        l1   == Put(linked, near, (IF near \in DOMAIN linked THEN linked[near] ELSE {}) \cup {ino2})
    IN  Put(l1, ino2, (IF ino2 \in DOMAIN l1 THEN l1[ino2] ELSE {}) \cup {near})

addLinkableInos(linked, ino1, ino2) ==
    LET l1 == Put(linked, ino1, (IF ino1 \in DOMAIN linked THEN linked[ino1] ELSE {}) \cup {ino2})
    IN  Put(l1, ino2, (IF ino2 \in DOMAIN l1 THEN l1[ino2] ELSE {}) \cup {ino1})

-----------------------------------------------------------------------------
(* Inode paths *)

\* faulty variant: the FilenamePaths made for a new inode is never stored
InoAppendPathnameUnstored(paths, ino, pathsplit) ==
    IF ino \notin DOMAIN paths THEN paths
    ELSE LET old == IF pathsplit.Filename \in DOMAIN paths[ino]
                    THEN paths[ino][pathsplit.Filename] ELSE <<>>
         IN  Put(paths, ino, Put(paths[ino], pathsplit.Filename, Append(old, pathsplit)))

InoAppendPathname(paths, ino, pathsplit) ==
    LET filenamePaths == IF ino \in DOMAIN paths THEN paths[ino] ELSE <<>>
        old == IF pathsplit.Filename \in DOMAIN filenamePaths
               THEN filenamePaths[pathsplit.Filename] ELSE <<>>
    IN  Put(paths, ino, Put(filenamePaths, pathsplit.Filename, Append(old, pathsplit)))

\* ArbitraryPath: the first path of whichever filename the map range visits
\* first (the set of paths it may return; empty when it panics)
ArbitraryPath(ino) ==
    IF ino \in DOMAIN InoPaths
    THEN {InoPaths[ino][fn][1] : fn \in DOMAIN InoPaths[ino]}
    ELSE {}

\* faulty variant: the first path under any of the inode's filenames
ArbitraryFilenamePathAnyName(ino, filename) ==
    LET fn == CHOOSE f \in DOMAIN InoPaths[ino] : f # filename \/ DOMAIN InoPaths[ino] = {filename}
    IN  InoPaths[ino][fn][1]

\* ArbitraryFilenamePath: the first path the inode has under the filename

ArbitraryFilenamePath(ino, filename) == InoPaths[ino][filename][1]

\* PathStatFromIno: the stored StatInfo of a cached inode (its arbitrary path
\* only serves to open the inode's content)
PathStatFromIno(ino) == InoStatInfo[ino]

-----------------------------------------------------------------------------
(* Ingestion: FSDev.findIdenticalFiles *)

\* faulty variant: with a digest, only the inodes of the same digest are searched
searchOrdersSameDigestOnly(cachedInoSet, digestOk, dg, digest) ==
    IF digestOk
    THEN AsSlice(cachedInoSet \cap DigestSet(dg, digest))
    ELSE AsSlice(cachedInoSet)

\* faulty variant: the inodes without a digest are searched before those of
\* the same digest
searchOrdersNoDigestFirst(cachedInoSet, digestOk, dg, digest) ==
    IF digestOk
    THEN LET noDigestSet   == cachedInoSet \ dg.InosWithDigest
             sameDigestSet == cachedInoSet \cap DigestSet(dg, digest)
         IN  {s2 \o s1 : s1 \in AsSlice(sameDigestSet), s2 \in AsSlice(noDigestSet)}
    ELSE AsSlice(cachedInoSet)

\* the order in which the cached inodes of the bucket are searched
searchOrders(cachedInoSet, digestOk, dg, digest) ==
    IF digestOk
    THEN LET noDigestSet   == cachedInoSet \ dg.InosWithDigest
             sameDigestSet == cachedInoSet \cap DigestSet(dg, digest)
         IN  {s1 \o s2 : s1 \in AsSlice(sameDigestSet), s2 \in AsSlice(noDigestSet)}
    ELSE AsSlice(cachedInoSet)

\* the search loop: [found, dg], found = 0 when the loop did not end early
RECURSIVE searchLoop(_, _, _, _, _)
searchLoop(cachedInoSeq, i, curPathStat, useDigest, dg) ==
    IF i > Len(cachedInoSeq) THEN [found |-> 0, dg |-> dg]
    ELSE LET r == areFilesHardlinkable(PathStatFromIno(cachedInoSeq[i]), curPathStat,
                                       useDigest, dg)
         IN  IF r.eq THEN [found |-> cachedInoSeq[i], dg |-> r.dg]
             ELSE searchLoop(cachedInoSeq, i + 1, curPathStat, useDigest, r.dg)

\* faulty variant: a negative threshold does not switch the digests off
useDigestUnsigned(cachedInoSet) ==
    Cardinality(cachedInoSet) > MyOptions.LinearSearchThresh

\* faulty variant: digests are used from a bucket of LinearSearchThresh inodes on
useDigestAtThresh(cachedInoSet) ==
    /\ MyOptions.LinearSearchThresh >= 0
    /\ Cardinality(cachedInoSet) >= MyOptions.LinearSearchThresh

\* useDigest: digests are enabled and the bucket is long enough
useDigestFor(cachedInoSet) ==
    /\ MyOptions.LinearSearchThresh >= 0
    /\ Cardinality(cachedInoSet) > MyOptions.LinearSearchThresh

\* faulty variant: the error of contentDigest is not looked at
searchInoSeqErrIgnored(statInfo, cachedInoSet, st) ==
    LET useDigest == useDigestFor(cachedInoSet)
        d   == contentDigest(statInfo.Ino)
        ok  == useDigest
        dg0 == [DigestIno |-> DigestIno, InosWithDigest |-> InosWithDigest, Stats |-> st]
        dg1 == IF ok THEN addPathStatDigest(computedDigest(dg0), statInfo.Ino, d.digest)
               ELSE dg0
    IN  {searchLoop(seq, 1, statInfo, useDigest, dg1) :
            seq \in searchOrders(cachedInoSet, ok, dg1, d.digest)}

\* the search of one bucket for an inode identical to the current one: the set
\* of outcomes, one for each order the maps can be ranged over
searchInoSeq(statInfo, cachedInoSet, st) ==
    LET useDigest == useDigestFor(cachedInoSet)
        d   == contentDigest(statInfo.Ino)
        ok  == useDigest /\ ~d.err
        dg0 == [DigestIno |-> DigestIno, InosWithDigest |-> InosWithDigest, Stats |-> st]
        dg1 == IF ok THEN addPathStatDigest(computedDigest(dg0), statInfo.Ino, d.digest)
               ELSE dg0
    IN  {searchLoop(seq, 1, statInfo, useDigest, dg1) :
            seq \in searchOrders(cachedInoSet, ok, dg1, d.digest)}

\* faulty variant: the unmatched inode is not added to its bucket
addToInoSetDropped(hashes, inoHash, ino) == hashes

\* inoSet := f.InoHashes[inoHash]; inoSet.Add(ino): no cached inode matched
addToInoSet(hashes, inoHash, ino) == [hashes EXCEPT ![inoHash] = @ \cup {ino}]

\* Results.foundExistingLink: count the link and, when existing links are
\* stored, append dst to the destinations recorded under src
foundExistingLink(st, srcP, dstP) ==
    LET dests == IF srcP \in DOMAIN st.ExistingLinks THEN st.ExistingLinks[srcP] ELSE <<>>
        st1   == Inc(st, "PrevLinkCount")
    IN  IF ~MyOptions.StoreExistingLinkResults THEN st1
        ELSE [st1 EXCEPT !.ExistingLinks = Put(@, srcP, Append(dests, dstP))]

findIdenticalFiles(pathname) ==
    LET statInfo == Lstat(pathname)
        ino      == statInfo.Ino
        curPath  == SplitPathname(pathname)
        known    == ino \in DOMAIN InoStatInfo
        st0      == IF known THEN Stats ELSE Inc(Stats, "InodeCount")
        inoHash  == InoHash(statInfo, MyOptions)
    IN  /\ IF inoHash \notin DOMAIN InoHashes
           THEN /\ InoHashes' = Put(InoHashes, inoHash, {ino})
                /\ Stats' = st0
                /\ UNCHANGED <<LinkedInos, DigestIno, InosWithDigest>>
           ELSE LET existing == IF known
                                THEN {foundExistingLink(st0, prevPath, curPath) :
                                         prevPath \in ArbitraryPath(ino)}
                                ELSE {st0}
                    linkedHashedInos == linkedInoSet(ino) \cap InoHashes[inoHash]
                IN  \E st1 \in existing :
                    IF linkedHashedInos # {}
                    THEN /\ Stats' = st1
                         /\ UNCHANGED <<InoHashes, LinkedInos, DigestIno, InosWithDigest>>
                    ELSE \E r \in searchInoSeq(statInfo, InoHashes[inoHash], st1) :
                            /\ DigestIno' = r.dg.DigestIno
                            /\ InosWithDigest' = r.dg.InosWithDigest
                            /\ Stats' = r.dg.Stats
                            /\ IF r.found # 0
                               THEN /\ LinkedInos' = addLinkableInos(LinkedInos, r.found, ino)
                                    /\ UNCHANGED InoHashes
                               ELSE /\ InoHashes' = addToInoSet(InoHashes, inoHash, ino)
                                    /\ UNCHANGED LinkedInos
        /\ InoStatInfo' = Put(InoStatInfo, ino, statInfo)
        /\ InoPaths' = InoAppendPathname(InoPaths, ino, curPath)

\* Run: the walker delivers each pathname of the tree once, in its own order;
\* a pathname of another device goes to that device's FSDev
Ingest ==
    /\ pc = "walk"
    /\ \E pathname \in (DOMAIN tree) \ walked :
          /\ IF routedHere(pathname)
             THEN findIdenticalFiles(pathname)
             ELSE UNCHANGED <<fsvars, Stats>>
          /\ walked' = walked \cup {pathname}
    /\ UNCHANGED <<envvars, pc, planvars>>

-----------------------------------------------------------------------------
(* The link planner: fsDev.SortedLinks, linkedInoSets, sendLinkedPairs *)

\* a Go map read of a key that is not there gives the zero value
ZeroStatInfo ==
    [Ino |-> 0, Size |-> 0, Sec |-> 0, Nsec |-> 0, Nlink |-> 0, Uid |-> 0, Gid |-> 0,
     Mode |-> 0]

statOf(m, ino) == IF ino \in DOMAIN m THEN m[ino] ELSE ZeroStatInfo

\* Nlink is a uint32: 0 - 1 wraps to the largest value (here the largest
\* integer TLC holds, 2^31 - 1, above every link cap of the model)
Uint32Max == 2147483647

Uint32Dec(n) == IF n = 0 THEN Uint32Max ELSE n - 1

\* faulty variant: equal Nlinks are ordered by descending inode number
byNlinkLessInoDesc(a, b) == a.Nlink < b.Nlink \/ (a.Nlink = b.Nlink /\ a.Ino < b.Ino)

\* byNlink.Less

byNlinkLess(a, b) == a.Nlink < b.Nlink \/ (a.Nlink = b.Nlink /\ a.Ino > b.Ino)

\* sort.Sort(sort.Reverse(seq)): no element is Less than a later one
sortSetByNlink(inoSet) ==
    LET e(ino) == [Ino |-> ino, Nlink |-> statOf(InoStatInfo, ino).Nlink]
    IN  CHOOSE s \in AsSlice(inoSet) :
            \A i, j \in DOMAIN s : i < j => ~byNlinkLess(e(s[i]), e(s[j]))

\* faulty variant: the inodes are appended as they are, not reversed
appendReversedInosAsIs(toS, fromS) == toS \o fromS

appendReversedInos(toS, fromS) ==
    toS \o [i \in 1 .. Len(fromS) |-> fromS[Len(fromS) + 1 - i]]

RECURSIVE concatPaths(_, _, _)
concatPaths(filenamePaths, names, i) ==
    IF i > Len(names) THEN <<>>
    ELSE filenamePaths[names[i]] \o concatPaths(filenamePaths, names, i + 1)

\* allInoPaths: every path of a copy of the inode's FilenamePaths, filename by
\* filename in map order (the sequences the channel may deliver)
allInoPaths(ino) ==
    LET filenamePaths == IF ino \in DOMAIN InoPaths THEN InoPaths[ino] ELSE <<>>
    IN  {concatPaths(filenamePaths, names, 1) : names \in AsSlice(DOMAIN filenamePaths)}

\* faulty variant: a filename left without paths keeps its (empty) entry
moveLinkedPathKeepsKey(paths, dstPath, srcIno_, dstIno_) ==
    LET fp  == IF dstIno_ \in DOMAIN paths THEN paths[dstIno_] ELSE <<>>
        fn  == dstPath.Filename
        p   == IF fn \in DOMAIN fp THEN fp[fn] ELSE <<>>
        hit == {i \in DOMAIN p : p[i] = dstPath}
        k   == IF hit = {} THEN 0 ELSE CHOOSE i \in hit : \A j \in hit : i <= j
        p2  == IF k = 0 THEN p ELSE SubSeq(p, 1, k - 1) \o SubSeq(p, k + 1, Len(p))
        paths1 == IF dstIno_ \notin DOMAIN paths THEN paths
                  ELSE Put(paths, dstIno_, Put(fp, fn, p2))
    IN  InoAppendPathname(paths1, srcIno_, dstPath)

\* faulty variant: the path is appended to src's record and left in dst's
moveLinkedPathCopies(paths, dstPath, srcIno_, dstIno_) ==
    InoAppendPathname(paths, srcIno_, dstPath)

moveLinkedPath(paths, dstPath, srcIno_, dstIno_) ==
    LET fp  == IF dstIno_ \in DOMAIN paths THEN paths[dstIno_] ELSE <<>>
        fn  == dstPath.Filename
        p   == IF fn \in DOMAIN fp THEN fp[fn] ELSE <<>>
        hit == {i \in DOMAIN p : p[i] = dstPath}
        k   == IF hit = {} THEN 0 ELSE CHOOSE i \in hit : \A j \in hit : i <= j
        p2  == IF k = 0 THEN p ELSE SubSeq(p, 1, k - 1) \o SubSeq(p, k + 1, Len(p))
        paths1 == IF dstIno_ \notin DOMAIN paths THEN paths
                  ELSE IF Len(p2) = 0 THEN Put(paths, dstIno_, Del(fp, fn))
                  ELSE Put(paths, dstIno_, Put(fp, fn, p2))
    IN  InoAppendPathname(paths1, srcIno_, dstPath)

\* faulty variant: the cap is tested against one more link, not against all of
\* dst's links
exceedsMaxNLinksByOne(sSI, dSI) == sSI.Nlink + 1 > MaxNLinks

\* faulty variant: an inode may not be filled up to the cap
exceedsMaxNLinksAtCap(sSI, dSI) == sSI.Nlink + dSI.Nlink >= MaxNLinks

\* sum := uint64(srcSI.Nlink) + uint64(dstSI.Nlink); sum > f.MaxNLinks
exceedsMaxNLinks(sSI, dSI) == sSI.Nlink + dSI.Nlink > MaxNLinks

\* faulty variant: a dst that keeps links is not stored back
updateStatInfoDstUnstored(m, sIno, s2, dIno, d2) ==
    LET m1 == Put(m, sIno, s2)
    IN  IF d2.Nlink = 0 THEN Del(m1, dIno) ELSE m1

\* the StatInfo update after a pair is sent: src is stored, dst is stored or,
\* at Nlink 0, deleted
updateStatInfo(m, sIno, s2, dIno, d2) ==
    LET m1 == Put(m, sIno, s2)
    IN  IF d2.Nlink = 0 THEN Del(m1, dIno) ELSE Put(m1, dIno, d2)

\* Run: the walk is over; SortedLinks starts linkedInoSets on a copy of LinkedInos
SortedLinks ==
    /\ pc = "walk"
    /\ walked = DOMAIN tree
    /\ pc' = "sets"
    /\ linkedRemaining' = LinkedInos
    /\ UNCHANGED <<envvars, fsvars, Stats, walked, sortedInos, remainingInos, srcIno,
                   dstIno, srcSI, dstSI, dstPaths, out>>

\* linkedInoSets yields the next set; SortedLinks sorts it for sendLinkedPairs
NextLinkedSet ==
    /\ pc = "sets"
    /\ \E startIno \in DOMAIN linkedRemaining :
          LET r == drainPending({startIno}, linkedRemaining, {})
          IN  /\ linkedRemaining' = r.remaining
              /\ sortedInos' = sortSetByNlink(r.resultSet)
    /\ remainingInos' = <<>>
    /\ pc' = "outer"
    /\ UNCHANGED <<envvars, fsvars, Stats, walked, srcIno, dstIno, srcSI, dstSI,
                   dstPaths, out>>

\* linkedInoSets has no set left: the channels are closed
CloseLinks ==
    /\ pc = "sets"
    /\ DOMAIN linkedRemaining = {}
    /\ pc' = "done"
    /\ UNCHANGED <<envvars, fsvars, Stats, walked, planvars>>

\* faulty variant: the inode taken as src stays on sortedInos
NextSrcKeepsSrc ==
    /\ pc = "outer"
    /\ IF Len(sortedInos) = 0 /\ Len(remainingInos) = 0
       THEN /\ pc' = "sets"
            /\ UNCHANGED <<sortedInos, remainingInos, srcIno>>
       ELSE LET s == IF Len(remainingInos) > 0
                     THEN appendReversedInos(sortedInos, remainingInos)
                     ELSE sortedInos
            IN  /\ srcIno' = Head(s)
                /\ sortedInos' = s
                /\ remainingInos' = <<>>
                /\ pc' = "inner"
    /\ UNCHANGED <<envvars, fsvars, Stats, walked, linkedRemaining, dstIno, srcSI, dstSI,
                   dstPaths, out>>

\* sendLinkedPairs, outer loop: recycle remainingInos, take the first as src
NextSrc ==
    /\ pc = "outer"
    /\ IF Len(sortedInos) = 0 /\ Len(remainingInos) = 0
       THEN /\ pc' = "sets"
            /\ UNCHANGED <<sortedInos, remainingInos, srcIno>>
       ELSE LET s == IF Len(remainingInos) > 0
                     THEN appendReversedInos(sortedInos, remainingInos)
                     ELSE sortedInos
            IN  /\ srcIno' = Head(s)
                /\ sortedInos' = Tail(s)
                /\ remainingInos' = <<>>
                /\ pc' = "inner"
    /\ UNCHANGED <<envvars, fsvars, Stats, walked, linkedRemaining, dstIno, srcSI, dstSI,
                   dstPaths, out>>

\* sendLinkedPairs, inner loop: take the last as dst and check the link cap
NextDst ==
    /\ pc = "inner"
    /\ IF Len(sortedInos) = 0
       THEN /\ pc' = "outer"
            /\ UNCHANGED <<sortedInos, remainingInos, dstIno, srcSI, dstSI, dstPaths>>
       ELSE LET d    == sortedInos[Len(sortedInos)]
                rest == SubSeq(sortedInos, 1, Len(sortedInos) - 1)
                sSI  == statOf(InoStatInfo, srcIno)
                dSI  == statOf(InoStatInfo, d)
            IN  /\ dstIno' = d
                /\ srcSI' = sSI
                /\ dstSI' = dSI
                /\ IF exceedsMaxNLinks(sSI, dSI)
                   THEN /\ remainingInos' = appendReversedInos(Append(remainingInos, d), rest)
                        /\ sortedInos' = <<>>
                        /\ pc' = "outer"
                        /\ UNCHANGED dstPaths
                   ELSE /\ sortedInos' = rest
                        /\ \E ps \in allInoPaths(d) : dstPaths' = ps
                        /\ pc' = "paths"
                        /\ UNCHANGED remainingInos
    /\ UNCHANGED <<envvars, fsvars, Stats, walked, linkedRemaining, srcIno, out>>

\* sendLinkedPairs, the loop over dstPaths: skip the path, send a pair on out,
\* or (the channel drained) put a dst that still has paths on remainingInos
NextDstPath ==
    /\ pc = "paths"
    /\ IF Len(dstPaths) = 0
       THEN /\ remainingInos' =
                 IF dstIno \in DOMAIN InoPaths /\ DOMAIN InoPaths[dstIno] # {}
                 THEN Append(remainingInos, dstIno) ELSE remainingInos
            /\ pc' = "inner"
            /\ UNCHANGED <<dstPaths, out>>
       ELSE LET dstPath == Head(dstPaths)
                srcFilenames == IF srcIno \in DOMAIN InoPaths
                                THEN DOMAIN InoPaths[srcIno] ELSE {}
            IN  IF MyOptions.SameName /\ dstPath.Filename \notin srcFilenames
                THEN /\ dstPaths' = Tail(dstPaths)
                     /\ UNCHANGED <<pc, remainingInos, out>>
                ELSE LET srcPaths == IF MyOptions.SameName
                                     THEN {ArbitraryFilenamePath(srcIno, dstPath.Filename)}
                                     ELSE ArbitraryPath(srcIno)
                     IN  IF srcPaths = {}
                         THEN /\ pc' = "panic"
                              /\ UNCHANGED <<dstPaths, remainingInos, out>>
                         ELSE \E srcPath \in srcPaths :
                                /\ out' = Append(out,
                                       [Src |-> [Pathsplit |-> srcPath, Info |-> srcSI],
                                        Dst |-> [Pathsplit |-> dstPath, Info |-> dstSI]])
                                /\ pc' = "sent"
                                /\ UNCHANGED <<dstPaths, remainingInos>>
    /\ UNCHANGED <<envvars, fsvars, Stats, walked, linkedRemaining, sortedInos, srcIno,
                   dstIno, srcSI, dstSI>>

\* sendLinkedPairs after the send: count the link, update both StatInfos and
\* move the path record
ApplyLink ==
    /\ pc = "sent"
    /\ LET dstPath == out[Len(out)].Dst.Pathsplit
           s2  == [srcSI EXCEPT !.Nlink = @ + 1]
           d2  == [dstSI EXCEPT !.Nlink = Uint32Dec(@)]
           st1 == Inc(Stats, "NewLinkCount")
       IN  /\ srcSI' = s2
           /\ dstSI' = d2
           /\ Stats' = IF d2.Nlink = 0 THEN Inc(st1, "InodeRemovedCount") ELSE st1
           /\ InoStatInfo' = updateStatInfo(InoStatInfo, srcIno, s2, dstIno, d2)
           /\ InoPaths' = moveLinkedPath(InoPaths, dstPath, srcIno, dstIno)
    /\ dstPaths' = Tail(dstPaths)
    /\ pc' = "paths"
    /\ UNCHANGED <<envvars, InoHashes, LinkedInos, DigestIno, InosWithDigest, walked,
                   linkedRemaining, sortedInos, remainingInos, srcIno, dstIno, out>>

-----------------------------------------------------------------------------
(* The runs checked: filesystems, trees and options *)

\* a regular file: 2 bytes, mtime (1, 0), mode 0644, owner 0:0
BaseFile ==
    [dev |-> Dev, Size |-> 2, Sec |-> 1, Nsec |-> 0, Mode |-> 420, Uid |-> 0, Gid |-> 0,
     xattr |-> 0, content |-> <<0, 0>>, readable |-> TRUE]

\* files that differ from BaseFile in one respect (the last is on another
\* device); the fourth and the fifth have BaseFile's InoHash all the same
FileKinds ==
    { BaseFile,
      [BaseFile EXCEPT !.content = <<0, 1>>],
      [BaseFile EXCEPT !.content = <<1, 0>>],
      [BaseFile EXCEPT !.Size = 3, !.Sec = 0, !.content = <<0, 0, 0>>],
      [BaseFile EXCEPT !.Sec = 0, !.Nsec = 1],
      [BaseFile EXCEPT !.Mode = 384],
      [BaseFile EXCEPT !.Uid = 1],
      [BaseFile EXCEPT !.Gid = 1],
      [BaseFile EXCEPT !.xattr = 1],
      [BaseFile EXCEPT !.readable = FALSE],
      [BaseFile EXCEPT !.dev = Dev + 1] }

ContentKinds ==
    { BaseFile, [BaseFile EXCEPT !.content = <<0, 1>>], [BaseFile EXCEPT !.content = <<1, 0>>] }

Inode(ino, file, nlink) ==
    [dev |-> file.dev,
     stat |-> [Ino |-> ino, Size |-> file.Size, Sec |-> file.Sec, Nsec |-> file.Nsec,
               Nlink |-> nlink, Uid |-> file.Uid, Gid |-> file.Gid, Mode |-> file.Mode],
     xattr |-> file.xattr, content |-> file.content, readable |-> file.readable]

DefaultOptions ==
    [IgnoreTime |-> FALSE, IgnorePerms |-> FALSE, IgnoreOwner |-> FALSE,
     IgnoreXattr |-> FALSE, ContentOnly |-> FALSE, SameName |-> FALSE,
     LinearSearchThresh |-> 1, StoreExistingLinkResults |-> TRUE]

IgnoreKinds ==
    { DefaultOptions,
      [DefaultOptions EXCEPT !.IgnoreTime = TRUE],
      [DefaultOptions EXCEPT !.IgnorePerms = TRUE],
      [DefaultOptions EXCEPT !.IgnoreOwner = TRUE],
      [DefaultOptions EXCEPT !.IgnoreXattr = TRUE],
      [DefaultOptions EXCEPT !.ContentOnly = TRUE] }

ZeroStats ==
    [InodeCount |-> 0, ComparisonCount |-> 0, EqualComparisonCount |-> 0,
     PrevLinkCount |-> 0, NewLinkCount |-> 0, InodeRemovedCount |-> 0,
     DigestComputedCount |-> 0, ExistingLinks |-> <<>>]

\* NewFSDev, NewLinkingStats and the planner's locals before it starts
InitEngine ==
    /\ hashed = <<>>
    /\ FSDevs = <<>>
    /\ linker = [pc |-> "idle", err |-> FALSE]
    /\ validated = [calls |-> 0, set |-> FALSE]
    /\ run = [set |-> FALSE]
    /\ sets = [calls |-> 0, s |-> <<<<>>, <<>>, <<>>>>, added |-> <<{}, {}, {}>>]
    /\ InoHashes = <<>>
    /\ InoStatInfo = <<>>
    /\ InoPaths = <<>>
    /\ LinkedInos = <<>>
    /\ DigestIno = <<>>
    /\ InosWithDigest = {}
    /\ Stats = ZeroStats
    /\ walked = {}
    /\ pc = "walk"
    /\ linkedRemaining = <<>>
    /\ sortedInos = <<>>
    /\ remainingInos = <<>>
    /\ srcIno = 0
    /\ dstIno = 0
    /\ srcSI = ZeroStatInfo
    /\ dstSI = ZeroStatInfo
    /\ dstPaths = <<>>
    /\ out = <<>>

\* Runs that vary the files' metadata and content and the options ingestion
\* reads: one path per inode, every inode with one link, no binding link cap;
\* each ignore flag with digests from the first search on, the default flags
\* also with no digests and with digests from the second cached inode on
InitFiles ==
    /\ \E k2 \in FileKinds :
       \E others \in [Inos \ {1, 2} -> ContentKinds \cup {k2}] :
          disk = [i \in Inos |-> Inode(i, IF i = 1 THEN BaseFile
                                          ELSE IF i = 2 THEN k2 ELSE others[i], 1)]
    /\ tree = [p \in Inos |-> [Ino |-> p, Filename |-> "f"]]
    /\ \/ \E o \in IgnoreKinds : MyOptions = [o EXCEPT !.LinearSearchThresh = 0]
       \/ \E t \in {-1, 1} : MyOptions = [DefaultOptions EXCEPT !.LinearSearchThresh = t]
    /\ MaxNLinks = 2 * NumPaths

\* Runs that vary the tree, the link counts and the options planning reads:
\* identical files, some inodes with several paths or with links outside the
\* tree, digests in use from the first search; existing links are counted
\* and not stored
InitLinks ==
    /\ \E extra \in [NumInos + 1 .. NumPaths -> Inos] :
       \E names \in [2 .. NumPaths -> {"f", "g"}] :
          tree = [p \in 1 .. NumPaths |->
                    [Ino |-> IF p <= NumInos THEN p ELSE extra[p],
                     Filename |-> IF p = 1 THEN "f" ELSE names[p]]]
    /\ \E unwalked \in {0, 1, NumInos} :
          disk = [i \in Inos |->
                    Inode(i, BaseFile,
                          Cardinality({p \in DOMAIN tree : tree[p].Ino = i})
                            + (IF i = unwalked THEN 1 ELSE 0))]
    /\ MaxNLinks \in {2, 3, 2 * NumPaths}
    /\ \E sn \in BOOLEAN :
          MyOptions = [DefaultOptions EXCEPT
                          !.SameName = sn, !.LinearSearchThresh = 0,
                          !.StoreExistingLinkResults = FALSE]
    /\ \A i \in Inos : disk[i].stat.Nlink <= MaxNLinks

\* Runs over one to NumInos identical files with one link and one path each,
\* under the default options: the link cap from 1 up to not binding
InitIdentical ==
    /\ \E n \in 1 .. NumInos : tree = [p \in 1 .. n |-> [Ino |-> p, Filename |-> "f"]]
    /\ disk = [i \in Inos |-> Inode(i, BaseFile, 1)]
    /\ MyOptions = DefaultOptions
    /\ MaxNLinks \in 1 .. NumInos + 1

Init == InitEngine /\ (InitFiles \/ InitLinks \/ InitIdentical)

Next ==
    \/ Ingest
    \/ SortedLinks
    \/ NextLinkedSet
    \/ CloseLinks
    \/ NextSrc
    \/ NextDst
    \/ NextDstPath
    \/ ApplyLink

Spec == Init /\ [][Next]_vars

\* The runs over files with one path each: those that vary the files and the
\* options ingestion reads, and those over identical files
InitOfFiles == InitEngine /\ (InitFiles \/ InitIdentical)

SpecFiles == InitOfFiles /\ [][Next]_vars

\* Runs that store the existing links they find (StoreExistingLinkResults, the
\* default): identical files, some inodes with two paths, SameName off, no
\* binding link cap, digests from the first search or from the second cached
\* inode on
InitStored ==
    /\ \E extra \in [NumInos + 1 .. NumPaths -> Inos] :
       \E names \in [2 .. NumPaths -> {"f", "g"}] :
          tree = [p \in 1 .. NumPaths |->
                    [Ino |-> IF p <= NumInos THEN p ELSE extra[p],
                     Filename |-> IF p = 1 THEN "f" ELSE names[p]]]
    /\ disk = [i \in Inos |->
                 Inode(i, BaseFile, Cardinality({p \in DOMAIN tree : tree[p].Ino = i}))]
    /\ \E t \in {0, 1} : MyOptions = [DefaultOptions EXCEPT !.LinearSearchThresh = t]
    /\ MaxNLinks = 2 * NumPaths

InitOfStored == InitEngine /\ InitStored

SpecStored == InitOfStored /\ [][Next]_vars

-----------------------------------------------------------------------------
(* Properties of ingestion *)

\* the inodes ingestion has recorded so far: those of the delivered pathnames
\* of this device
IngestedInos == {tree[p].Ino : p \in {q \in walked : routedHere(q)}}

\* the inodes held by some bucket, and by some digest set
BucketInos == UNION {InoHashes[h] : h \in DOMAIN InoHashes}

DigestInos == UNION {DigestIno[d] : d \in DOMAIN DigestIno}

\* a metadata field is ignored when its flag, or ContentOnly, is set
Ignored(flag) == MyOptions.ContentOnly \/ MyOptions[flag]

\* what the filesystem says of two inodes: distinct, on one device, of equal
\* size, content and not-ignored metadata
SameFile(a, b) ==
    /\ a # b
    /\ disk[a].dev = disk[b].dev
    /\ disk[a].stat.Size = disk[b].stat.Size
    /\ disk[a].content = disk[b].content
    /\ Ignored("IgnoreTime") \/ /\ disk[a].stat.Sec = disk[b].stat.Sec
                                /\ disk[a].stat.Nsec = disk[b].stat.Nsec
    /\ Ignored("IgnorePerms") \/ disk[a].stat.Mode = disk[b].stat.Mode
    /\ Ignored("IgnoreOwner") \/ /\ disk[a].stat.Uid = disk[b].stat.Uid
                                 /\ disk[a].stat.Gid = disk[b].stat.Gid
    /\ Ignored("IgnoreXattr") \/ disk[a].xattr = disk[b].xattr

\* C1: every edge of LinkedInos and every pair the planner has sent joins two
\* distinct inodes of one device with equal size, byte-identical content and
\* equal values of every metadata field the options do not ignore.
C1_Soundness ==
    /\ \A a \in DOMAIN LinkedInos : \A b \in LinkedInos[a] : SameFile(a, b)
    /\ \A i \in DOMAIN out : SameFile(out[i].Src.Info.Ino, out[i].Dst.Info.Ino)

\* a pair was sent, in a run that left unlinked an inode of the same content
\* as a linked one
C1_Witness ==
    /\ Len(out) >= 1
    /\ \E x \in IngestedInos \ DOMAIN LinkedInos : \E a \in DOMAIN LinkedInos :
          disk[x].readable /\ disk[x].content = disk[a].content

\* the hardlinkability predicate, read off the filesystem: the same file, and
\* both contents can be read to the end
Hardlinkable(a, b) == SameFile(a, b) /\ disk[a].readable /\ disk[b].readable

\* C2: any two recorded inodes that satisfy the hardlinkability predicate are
\* in the same connected component of LinkedInos, with or without digests.
C2_Completeness ==
    LET recorded == IngestedInos
    IN  \A a \in recorded :
            LET component == linkedInoSet(a)
            IN  \A b \in recorded : Hardlinkable(a, b) => b \in component

\* digests were in use, and three inodes ended in one component
C2_Witness ==
    /\ InosWithDigest # {}
    /\ \E a \in DOMAIN LinkedInos : Cardinality(linkedInoSet(a)) >= 3

\* C3: LinkedInos is symmetric: b is in LinkedInos[a] iff a is in LinkedInos[b].
C3_Symmetric ==
    \A a \in DOMAIN LinkedInos : \A b \in LinkedInos[a] :
        b \in DOMAIN LinkedInos /\ a \in LinkedInos[b]

\* an inode with two neighbours
C3_Witness == \E a \in DOMAIN LinkedInos : Cardinality(LinkedInos[a]) >= 2

\* the metadata hashes of a recorded StatInfo under the run's ignore flags
MetadataHashes(si) ==
    <<InoHash(si, MyOptions),
      HashIno(si, Ignored("IgnoreTime"), Ignored("IgnorePerms"), Ignored("IgnoreOwner"))>>

\* C4: all inodes of one connected component of LinkedInos have the same
\* metadata hash, computed from their recorded StatInfo under the ignore flags.
C4_ComponentHash ==
    pc = "walk" =>
        \A a \in DOMAIN LinkedInos :
            LET hashes == MetadataHashes(InoStatInfo[a])
            IN  \A b \in linkedInoSet(a) : MetadataHashes(InoStatInfo[b]) = hashes

\* a component of three inodes, two of them of different modes (IgnorePerms
\* leaves the mode out of the hash)
C4_Witness ==
    /\ pc = "walk"
    /\ \E a \in DOMAIN LinkedInos :
          /\ Cardinality(linkedInoSet(a)) >= 3
          /\ \E b \in LinkedInos[a] : InoStatInfo[a].Mode # InoStatInfo[b].Mode

\* C5 as stated: an inode has an InoStatInfo entry iff it has an InoPaths
\* entry iff it is in some bucket.
C5_AsStated ==
    pc = "walk" =>
        \A ino \in Inos :
            /\ ino \in DOMAIN InoStatInfo <=> ino \in DOMAIN InoPaths
            /\ ino \in DOMAIN InoPaths <=> ino \in BucketInos

\* C5: after every ingest an inode has an InoStatInfo entry iff it has an
\* InoPaths entry iff it is in some bucket or has an edge in LinkedInos (an
\* inode that matched a cached inode is linked to it and joins no bucket).
C5_StatPathsBucketOrLinked ==
    pc = "walk" =>
        \A ino \in Inos :
            /\ ino \in DOMAIN InoStatInfo <=> ino \in DOMAIN InoPaths
            /\ ino \in DOMAIN InoPaths <=>
                   (ino \in BucketInos \/ ino \in DOMAIN LinkedInos)

\* a recorded inode that is linked and in no bucket, beside one that is in a
\* bucket
C5_Witness ==
    /\ pc = "walk"
    /\ \E ino \in DOMAIN InoStatInfo : ino \in DOMAIN LinkedInos /\ ino \notin BucketInos
    /\ \E ino \in DOMAIN InoStatInfo : ino \in BucketInos /\ ino \notin DOMAIN LinkedInos

\* the inodes that appear in any index
IndexedInos ==
    BucketInos \cup DOMAIN LinkedInos \cup UNION {LinkedInos[a] : a \in DOMAIN LinkedInos}
        \cup DigestInos \cup InosWithDigest

\* C6: after every ingest, every inode that appears in a bucket, in LinkedInos
\* (key or neighbour), in a DigestIno set or in InosWithDigest has an
\* InoStatInfo entry and at least one recorded path.
C6_IndexedAreRecorded ==
    pc = "walk" =>
        \A ino \in IndexedInos :
            /\ ino \in DOMAIN InoStatInfo
            /\ ino \in DOMAIN InoPaths
            /\ \E fn \in DOMAIN InoPaths[ino] : Len(InoPaths[ino][fn]) >= 1

\* the walk is over with inodes in every kind of index, one of them with two
\* recorded paths
C6_Witness ==
    /\ pc = "walk"
    /\ walked = DOMAIN tree
    /\ BucketInos # {} /\ DOMAIN LinkedInos # {} /\ InosWithDigest # {}
    /\ \E ino \in IndexedInos : \E fn \in DOMAIN InoPaths[ino] : Len(InoPaths[ino][fn]) >= 2

\* C7: DigestIno partitions InosWithDigest: an inode is in InosWithDigest iff
\* it is in some DigestIno set, and no inode is in the sets of two digests.
C7_DigestPartition ==
    /\ InosWithDigest = DigestInos
    /\ \A d1, d2 \in DOMAIN DigestIno :
          d1 # d2 => DigestIno[d1] \cap DigestIno[d2] = {}

\* two digests are known, one of them shared by two inodes
C7_Witness ==
    /\ Cardinality(DOMAIN DigestIno) >= 2
    /\ \E d \in DOMAIN DigestIno : Cardinality(DigestIno[d]) >= 2

-----------------------------------------------------------------------------
(* Properties of the link planner *)

\* the pairs whose StatInfo update has been made: all that were sent, but the
\* last one while the planner stands just after its send
Applied == 1 .. (IF pc = "sent" THEN Len(out) - 1 ELSE Len(out))

\* C8: for every pair the planner sends, the recorded Nlink of src right after
\* its increment is at most MaxNLinks (src's Nlink only grows while it is src,
\* so no recorded Nlink of a src is ever above the cap).
C8_LinkCap ==
    /\ \A i \in DOMAIN out : statOf(InoStatInfo, out[i].Src.Info.Ino).Nlink <= MaxNLinks
    /\ pc \in {"sent", "paths"} => srcSI.Nlink <= MaxNLinks

\* a pair has filled its src to the cap, and the cap has then turned the next
\* dst away
C8_Witness ==
    /\ pc = "outer"
    /\ Len(remainingInos) >= 1
    /\ Len(out) >= 1
    /\ out[Len(out)].Src.Info.Ino = srcIno
    /\ statOf(InoStatInfo, srcIno).Nlink = MaxNLinks

RECURSIVE SumNlink(_, _)
SumNlink(nlinkOf, inoSet) ==
    IF inoSet = {} THEN 0
    ELSE LET ino == CHOOSE x \in inoSet : TRUE
         IN  nlinkOf[ino] + SumNlink(nlinkOf, inoSet \ {ino})

\* the recorded Nlink of every inode (0 for one without StatInfo), and the
\* Nlink the filesystem gave it
RecordedNlink == [ino \in Inos |-> statOf(InoStatInfo, ino).Nlink]

FirstNlink == [ino \in Inos |-> disk[ino].stat.Nlink]

\* how many of the applied pairs have the inode as src or as dst
SentAs(role, ino) == Cardinality({i \in Applied : out[i][role].Info.Ino = ino})

\* C9: each pair sent adds exactly 1 to src's recorded Nlink and takes exactly
\* 1 from dst's, so the recorded Nlinks of a component (a removed inode
\* counting 0) sum to what they did before planning; and the planner has
\* removed an inode from InoStatInfo exactly when its Nlink has reached 0.
C9_NlinkAccounting ==
    /\ \A ino \in IngestedInos :
          LET nlink == FirstNlink[ino] + SentAs("Src", ino) - SentAs("Dst", ino)
          IN  /\ RecordedNlink[ino] = nlink
              /\ ino \notin DOMAIN InoStatInfo <=> nlink = 0
    /\ \A a \in DOMAIN LinkedInos :
          LET component == linkedInoSet(a)
          IN  SumNlink(RecordedNlink, component) = SumNlink(FirstNlink, component)

\* the planner has removed one inode and left another, which it took links
\* from, with a link it cannot see
C9_Witness ==
    /\ \E ino \in IngestedInos : ino \notin DOMAIN InoStatInfo
    /\ \E ino \in DOMAIN InoStatInfo :
          SentAs("Dst", ino) >= 1 /\ RecordedNlink[ino] >= 1
    /\ \E ino \in DOMAIN InoStatInfo : SentAs("Src", ino) >= 2

\* the inodes the planner has removed
RemovedInos == IngestedInos \ DOMAIN InoStatInfo

-----------------------------------------------------------------------------
(* Planner completeness, determinism and the ingest of existing links *)

\* the paths recorded for an inode, under any filename
RecordedPaths(ino) ==
    IF ino \notin DOMAIN InoPaths THEN {}
    ELSE UNION {{InoPaths[ino][fn][i] : i \in DOMAIN InoPaths[ino][fn]} :
                   fn \in DOMAIN InoPaths[ino]}

\* the paths the walk has recorded for the inodes of a set
WalkedPaths(inoSet) ==
    {SplitPathname(p) : p \in {q \in walked : routedHere(q) /\ tree[q].Ino \in inoSet}}

\* the first inode of a component in the order (nlink desc, ino asc), by the
\* Nlink the filesystem gave
FirstOfOrder(component) ==
    CHOOSE a \in component :
        \A b \in component \ {a} :
            \/ FirstNlink[a] > FirstNlink[b]
            \/ FirstNlink[a] = FirstNlink[b] /\ a < b

\* the pairs sent whose dst is an inode of the set
PairsInto(inoSet) == {i \in DOMAIN out : out[i].Dst.Info.Ino \in inoSet}

\* C11: with SameName off, once planning is over, every component whose Nlinks
\* sum to at most MaxNLinks has all its recorded paths under the first inode
\* of the (nlink desc, ino asc) order, none under another inode, and as many
\* pairs were sent for it as paths were recorded under the other inodes.
C11_PlannerCompleteness ==
    (pc = "done" /\ ~MyOptions.SameName) =>
        \A a \in DOMAIN LinkedInos :
            LET component == linkedInoSet(a)
                first     == FirstOfOrder(component)
            IN  SumNlink(FirstNlink, component) <= MaxNLinks =>
                    /\ RecordedPaths(first) = WalkedPaths(component)
                    /\ \A b \in component \ {first} : RecordedPaths(b) = {}
                    /\ Cardinality(PairsInto(component))
                          = Cardinality(WalkedPaths(component \ {first}))

\* planning is over for a component of three inodes under the cap, the first
\* of the order not being the lowest inode number, and both others were linked
C11_Witness ==
    /\ pc = "done"
    /\ ~MyOptions.SameName
    /\ \E a \in DOMAIN LinkedInos :
          LET component == linkedInoSet(a)
          IN  /\ Cardinality(component) = 3
              /\ SumNlink(FirstNlink, component) <= MaxNLinks
              /\ FirstOfOrder(component) # 1
              /\ Cardinality(PairsInto(component)) = 2

\* the pairs the planner may send next from the state it stands in
NextPairs ==
    IF pc = "paths" /\ Len(dstPaths) > 0
    THEN LET dstPath == Head(dstPaths)
             srcPaths == IF ~MyOptions.SameName THEN ArbitraryPath(srcIno)
                         ELSE IF dstPath.Filename \in DOMAIN InoPaths[srcIno]
                         THEN {ArbitraryFilenamePath(srcIno, dstPath.Filename)}
                         ELSE {}
         IN  {<<srcPath, dstPath>> : srcPath \in srcPaths}
    ELSE {}

\* the orders in which the planner may go through the paths of the dst it
\* takes next
NextDstOrders ==
    IF pc = "inner" /\ Len(sortedInos) > 0
    THEN allInoPaths(sortedInos[Len(sortedInos)])
    ELSE {}

\* C12: what was ingested determines the pairs sent: wherever the planner
\* stands, there is at most one pair it may send next (one src path to choose)
\* and at most one order in which it may go through the next dst's paths.
C12_AsStated ==
    /\ Cardinality(NextPairs) <= 1
    /\ Cardinality(NextDstOrders) <= 1

\* the path records of an inode: one <<filename, position>> for each
PathRecords(paths, ino) ==
    IF ino \notin DOMAIN paths THEN {}
    ELSE UNION {{<<fn, i>> : i \in DOMAIN paths[ino][fn]} : fn \in DOMAIN paths[ino]}

\* the step ingests pathname, whose inode already has a StatInfo
IngestsKnown(pathname) ==
    /\ pc = "walk"
    /\ pathname \notin walked
    /\ walked' = walked \cup {pathname}
    /\ routedHere(pathname)
    /\ tree[pathname].Ino \in DOMAIN InoStatInfo

\* the existing-link event of a step: one more PrevLinkCount and, where
\* existing links are stored, dstP appended to the destinations recorded under
\* src srcP
ExistingLinkEvent(srcP, dstP) ==
    /\ Stats'.PrevLinkCount = Stats.PrevLinkCount + 1
    /\ Stats'.ExistingLinks =
          IF ~MyOptions.StoreExistingLinkResults THEN Stats.ExistingLinks
          ELSE Put(Stats.ExistingLinks, srcP,
                   Append(IF srcP \in DOMAIN Stats.ExistingLinks
                          THEN Stats.ExistingLinks[srcP] ELSE <<>>, dstP))

\* C13: ingesting a path whose inode is already recorded leaves the buckets,
\* the edges and the digest index as they were, counts no comparison, no
\* digest and no new inode, records one existing-link event whose src is a path
\* recorded for that inode before and whose dst is the new path, and appends
\* one path record, the new path, to that inode and to no other.
C13_KnownInodeIngest ==
    [][\A pathname \in DOMAIN tree :
          IngestsKnown(pathname) =>
              LET ino     == tree[pathname].Ino
                  curPath == SplitPathname(pathname)
              IN  /\ UNCHANGED <<InoHashes, LinkedInos, DigestIno, InosWithDigest>>
                  /\ InoStatInfo' = InoStatInfo
                  /\ Stats'.ComparisonCount = Stats.ComparisonCount
                  /\ Stats'.EqualComparisonCount = Stats.EqualComparisonCount
                  /\ Stats'.DigestComputedCount = Stats.DigestComputedCount
                  /\ Stats'.InodeCount = Stats.InodeCount
                  /\ \E srcP \in RecordedPaths(ino) : ExistingLinkEvent(srcP, curPath)
                  /\ Cardinality(PathRecords(InoPaths', ino))
                        = Cardinality(PathRecords(InoPaths, ino)) + 1
                  /\ LET fn == curPath.Filename
                     IN  InoPaths'[ino][fn][Len(InoPaths'[ino][fn])] = curPath
                  /\ \A other \in DOMAIN InoPaths' \ {ino} :
                        other \in DOMAIN InoPaths /\ InoPaths'[other] = InoPaths[other]
      ]_vars

\* an existing link was recorded for an inode that is linked to another one
\* and is in no bucket
C13_Witness ==
    /\ pc = "walk"
    /\ Stats.PrevLinkCount = 1
    /\ \E srcP \in DOMAIN Stats.ExistingLinks : Len(Stats.ExistingLinks[srcP]) = 1
    /\ \E ino \in DOMAIN LinkedInos :
          /\ ino \notin BucketInos
          /\ Cardinality(PathRecords(InoPaths, ino)) >= 2

-----------------------------------------------------------------------------
(* Runs over identical files, and the link cap *)

\* the file of an inode without what tells inodes apart: number and link count
FileOf(ino) ==
    [disk[ino] EXCEPT !.stat = [@ EXCEPT !.Ino = 0, !.Nlink = 0]]

\* the inode has one link, and one path in the tree
SingleLink(ino) ==
    /\ disk[ino].stat.Nlink = 1
    /\ Cardinality({p \in DOMAIN tree : tree[p].Ino = ino}) = 1

\* every file of the tree is a readable single-link file on the device, all
\* with the same metadata and content, and the options are the defaults
IdenticalRun ==
    /\ MyOptions = DefaultOptions
    /\ \A p \in DOMAIN tree :
          /\ routedHere(p)
          /\ SingleLink(tree[p].Ino)
          /\ disk[tree[p].Ino].readable
          /\ Len(disk[tree[p].Ino].content) > 0
          /\ \A q \in DOMAIN tree : FileOf(tree[p].Ino) = FileOf(tree[q].Ino)

\* C14: over n identical single-link files under the default options, after j
\* of them are ingested j inodes are recorded and j - 1 comparisons were made
\* (none for j = 0), all of them equal; with a cap of at least n, planning has
\* sent n - 1 pairs and removed n - 1 inodes when it is over.
C14_IdenticalFiles ==
    IdenticalRun =>
        LET n == Cardinality(DOMAIN tree)
            j == Cardinality(walked)
        IN  /\ Stats.InodeCount = j
            /\ Cardinality(DOMAIN InoStatInfo) + Stats.InodeRemovedCount = j
            /\ Stats.ComparisonCount = (IF j = 0 THEN 0 ELSE j - 1)
            /\ Stats.EqualComparisonCount = Stats.ComparisonCount
            /\ (pc = "done" /\ MaxNLinks >= n) =>
                  /\ Len(out) = n - 1
                  /\ Stats.NewLinkCount = n - 1
                  /\ Stats.InodeRemovedCount = n - 1

\* planning is over for NumInos identical files under a cap that does not bind
C14_Witness ==
    /\ IdenticalRun
    /\ pc = "done"
    /\ Cardinality(DOMAIN tree) = NumInos
    /\ MaxNLinks >= NumInos
    /\ Stats.NewLinkCount = NumInos - 1

CeilDiv(k, m) == (k + m - 1) \div m

\* the inodes of a set that still hold paths
HoldingPaths(inoSet) == {ino \in inoSet : RecordedPaths(ino) # {}}

\* C15: with SameName off, once planning is over, a component of k
\* single-link inodes under the cap m = MaxNLinks >= 1 has had k - ceil(k/m)
\* pairs sent and is left with ceil(k/m) inodes holding paths.
C15_CapPairs ==
    (pc = "done" /\ ~MyOptions.SameName) =>
        \A a \in DOMAIN LinkedInos :
            LET component == linkedInoSet(a)
                k == Cardinality(component)
            IN  (\A ino \in component : SingleLink(ino)) =>
                    /\ Cardinality(PairsInto(component)) = k - CeilDiv(k, MaxNLinks)
                    /\ Cardinality(HoldingPaths(component)) = CeilDiv(k, MaxNLinks)

\* three identical files under cap 2: one pair was sent, and one inode is left
\* with its single path and Nlink 1
C15_Witness ==
    /\ pc = "done"
    /\ MaxNLinks = 2
    /\ Cardinality(DOMAIN LinkedInos) = 3
    /\ \A ino \in DOMAIN LinkedInos : SingleLink(ino)
    /\ Len(out) = 1
    /\ \E ino \in DOMAIN LinkedInos :
          /\ Cardinality(PathRecords(InoPaths, ino)) = 1
          /\ statOf(InoStatInfo, ino).Nlink = 1

-----------------------------------------------------------------------------
(* SameName, metadata and the digest threshold *)

\* the filenames the tree has for an inode
TreeFilenames(ino) == {tree[p].Filename : p \in {q \in DOMAIN tree : tree[q].Ino = ino}}

\* C16: with SameName set, every pair sent has the same filename in its src
\* path and its dst path; when it is sent, its src path is a path recorded for
\* the src inode; and its two inodes share a filename in the tree (inodes that
\* share none get no pair).
C16_SameName ==
    MyOptions.SameName =>
        /\ \A i \in DOMAIN out :
              /\ out[i].Src.Pathsplit.Filename = out[i].Dst.Pathsplit.Filename
              /\ TreeFilenames(out[i].Src.Info.Ino) \cap TreeFilenames(out[i].Dst.Info.Ino) # {}
              /\ out[i].Dst.Pathsplit.Filename \in TreeFilenames(out[i].Src.Info.Ino)
        /\ pc = "sent" =>
              /\ out[Len(out)].Src.Info.Ino = srcIno
              /\ out[Len(out)].Src.Pathsplit \in RecordedPaths(srcIno)

\* with SameName set, planning is over: a pair was sent, and two linked
\* inodes that share no filename both keep their paths
C16_Witness ==
    /\ MyOptions.SameName
    /\ pc = "done"
    /\ Len(out) >= 1
    /\ \E a, b \in DOMAIN LinkedInos :
          /\ TreeFilenames(a) \cap TreeFilenames(b) = {}
          /\ RecordedPaths(a) # {} /\ RecordedPaths(b) # {}

\* size and every metadata field that is not ignored are equal: mtime, mode
\* and owner
MetadataEqual(a, b) ==
    LET s1 == disk[a].stat
        s2 == disk[b].stat
    IN  /\ s1.Size = s2.Size
        /\ Ignored("IgnoreTime")  \/ (s1.Sec = s2.Sec /\ s1.Nsec = s2.Nsec)
        /\ Ignored("IgnorePerms") \/ s1.Mode = s2.Mode
        /\ Ignored("IgnoreOwner") \/ (s1.Uid = s2.Uid /\ s1.Gid = s2.Gid)

\* the pairs of distinct ingested inodes whose metadata agree, each pair once
MetadataEqualPairs ==
    LET ingested == IngestedInos
    IN  {pair \in ingested \X ingested :
            pair[1] < pair[2] /\ MetadataEqual(pair[1], pair[2])}

\* C17: a comparison is counted only for two inodes whose size and
\* non-ignored mtime, mode and owner agree (each pair is compared at most
\* once, so the count never exceeds the number of such pairs), and no edge
\* joins two inodes that differ in one of them.
C17_MetadataBeforeComparison ==
    /\ Stats.ComparisonCount <= Cardinality(MetadataEqualPairs)
    /\ \A a \in DOMAIN LinkedInos : \A b \in LinkedInos[a] : MetadataEqual(a, b)

\* the walk is over: two inodes of one bucket differ in a field that is not
\* ignored, and the one comparison made was between two that agree
C17_Witness ==
    /\ pc = "walk"
    /\ walked = DOMAIN tree
    /\ \E h \in DOMAIN InoHashes : \E a, b \in InoHashes[h] : ~MetadataEqual(a, b)
    /\ Stats.ComparisonCount = 1
    /\ Cardinality(MetadataEqualPairs) = 1

\* C18: with LinearSearchThresh = -1 no digest is ever computed:
\* DigestComputedCount stays 0, and DigestIno and InosWithDigest stay empty,
\* whatever was ingested and however many inodes a bucket holds.
C18_NoDigests ==
    MyOptions.LinearSearchThresh = -1 =>
        /\ Stats.DigestComputedCount = 0
        /\ DOMAIN DigestIno = {}
        /\ InosWithDigest = {}

\* with LinearSearchThresh = -1 the walk is over, a bucket holds NumInos
\* inodes and comparisons were made
C18_Witness ==
    /\ MyOptions.LinearSearchThresh = -1
    /\ pc = "walk"
    /\ walked = DOMAIN tree
    /\ \E h \in DOMAIN InoHashes : Cardinality(InoHashes[h]) = NumInos
    /\ Stats.ComparisonCount >= NumInos

\* C19 as stated: once three identical files are ingested with
\* LinearSearchThresh = 1, at least one digest has been computed.
C19_AsStated ==
    (/\ IdenticalRun
     /\ MyOptions.LinearSearchThresh = 1
     /\ Cardinality(DOMAIN tree) = 3
     /\ walked = DOMAIN tree) => Stats.DigestComputedCount >= 1

\* C19, amended: identical files under the default options (LinearSearchThresh
\* = 1) never have a digest computed, since an inode found equal is linked and
\* not added to the bucket; and whenever a digest has been computed, digests
\* are enabled and some bucket holds more than LinearSearchThresh inodes.
C19_DigestAboveThresh ==
    /\ IdenticalRun => Stats.DigestComputedCount = 0
    /\ Stats.DigestComputedCount >= 1 =>
          /\ MyOptions.LinearSearchThresh >= 0
          /\ \E h \in DOMAIN InoHashes :
                Cardinality(InoHashes[h]) > MyOptions.LinearSearchThresh

\* three identical files are ingested with LinearSearchThresh = 1: two
\* comparisons, one bucket of one inode, no digest
C19_Witness ==
    /\ IdenticalRun
    /\ MyOptions.LinearSearchThresh = 1
    /\ Cardinality(DOMAIN tree) = 3
    /\ walked = DOMAIN tree
    /\ Stats.ComparisonCount = 2
    /\ \A h \in DOMAIN InoHashes : Cardinality(InoHashes[h]) = 1
    /\ Stats.DigestComputedCount = 0

-----------------------------------------------------------------------------
(* The metadata hashes against the inode-parameter checks, over pairs of   *)
(* stats and all settings of the ignore flags                               *)

\* the stats hashed: every combination of two values of size, seconds,
\* nanoseconds, uid, gid and xattr, and three modes (0644, 0600, and 0644 with
\* a bit above the permission bits)
HashedFiles ==
    {[BaseFile EXCEPT !.Size = f[1], !.Sec = f[2], !.Nsec = f[3], !.Mode = f[4],
                      !.Uid = f[5], !.Gid = f[6], !.xattr = f[7]] :
        f \in {2, 3} \X {0, 1} \X {0, 1} \X {420, 384, 932} \X {0, 1} \X {0, 1} \X {0, 1}}

\* the stats they are paired with
PairedFiles ==
    { BaseFile,
      [BaseFile EXCEPT !.Sec = 0, !.Nsec = 1],
      [BaseFile EXCEPT !.Mode = 932],
      [BaseFile EXCEPT !.Uid = 1, !.Gid = 1] }

FlagSettings ==
    {[DefaultOptions EXCEPT !.IgnoreTime = b[1], !.IgnorePerms = b[2], !.IgnoreOwner = b[3],
                            !.IgnoreXattr = b[4], !.ContentOnly = b[5]] :
        b \in BOOLEAN \X BOOLEAN \X BOOLEAN \X BOOLEAN \X BOOLEAN}

\* two inodes with the stats to hash, and the options
InitHash ==
    /\ InitEngine
    /\ \E f1 \in PairedFiles : \E f2 \in HashedFiles :
          disk = [i \in {1, 2} |-> Inode(i, IF i = 1 THEN f1 ELSE f2, 1)]
    /\ tree = <<>>
    /\ MyOptions \in FlagSettings
    /\ MaxNLinks = 2 * NumPaths

\* the hashes of one inode's stat are computed, as findIdenticalFiles does for
\* the stat of an ingested path
ApplyHash ==
    /\ \E ino \in (DOMAIN disk) \ (DOMAIN hashed) :
          hashed' = Put(hashed, ino, MetadataHashes(disk[ino].stat))
    /\ UNCHANGED <<disk, tree, MyOptions, MaxNLinks, FSDevs, linker, validated, run, sets,
                   fsvars, Stats, walked, pc, planvars>>

NextHash == ApplyHash

SpecHash == InitHash /\ [][NextHash]_vars

\* C20: for every two stats and every setting of the ignore flags, if the
\* inode-parameter checks of areFilesHardlinkable accept the pair (sizes equal
\* and every field that is not ignored equal), the two stats have the same
\* metadata hashes under those flags.
C20_HashConsistent ==
    \A a, b \in DOMAIN hashed :
        inodeParamsMatch(disk[a].stat, disk[b].stat) => hashed[a] = hashed[b]

\* both stats are hashed and accepted, though they differ in their times,
\* which are ignored
C20_Witness ==
    /\ DOMAIN hashed = {1, 2}
    /\ inodeParamsMatch(disk[1].stat, disk[2].stat)
    /\ disk[1].stat.Sec # disk[2].stat.Sec
    /\ ~MyOptions.ContentOnly
    /\ hashed[1] = hashed[2]

-----------------------------------------------------------------------------
(* Linkable: one FSDev for each device *)

\* Linkable.Dev: the FSDev of the device, made (empty) at its first use
LinkableDev(devs, dev) == IF dev \in DOMAIN devs THEN devs ELSE Put(devs, dev, {})

\* faulty variant: the device of the stat is not looked at
DevMismatchUnseen(pathname) == FALSE

\* f.Dev != devStatInfo.Dev
DevMismatch(pathname) == Dev # disk[tree[pathname].Ino].dev

\* findIdenticalFiles of the FSDev followed, from its first statement: a stat
\* of another device panics
GuardedFindIdenticalFiles(pathname) ==
    IF DevMismatch(pathname)
    THEN /\ pc' = "panic"
         /\ UNCHANGED <<fsvars, Stats>>
    ELSE /\ findIdenticalFiles(pathname)
         /\ pc' = pc

\* Linkable.FindIdenticalFiles: the pathname goes to the FSDev of its device
LinkableFindIdenticalFiles ==
    /\ pc = "walk"
    /\ \E pathname \in (DOMAIN tree) \ walked :
          LET dev  == disk[tree[pathname].Ino].dev
              devs == LinkableDev(FSDevs, dev)
          IN  /\ FSDevs' = [devs EXCEPT ![dev] = @ \cup {pathname}]
              /\ IF dev = Dev
                 THEN GuardedFindIdenticalFiles(pathname)
                 ELSE UNCHANGED <<fsvars, Stats, pc>>
              /\ walked' = walked \cup {pathname}
    /\ UNCHANGED <<disk, tree, MyOptions, MaxNLinks, hashed, linker, validated, run, sets,
                   planvars>>

\* findIdenticalFiles of the FSDev followed, handed a pathname of another
\* device
MisroutedFindIdenticalFiles ==
    /\ pc = "walk"
    /\ \E pathname \in (DOMAIN tree) \ walked :
          /\ disk[tree[pathname].Ino].dev # Dev
          /\ GuardedFindIdenticalFiles(pathname)
    /\ UNCHANGED <<envvars, walked, planvars>>

\* Runs over two devices: identical files, each inode on either device, one
\* path more than inodes, digests from the first search or the second cached
\* inode on
InitDevs ==
    /\ \E devOf \in [Inos -> {Dev, Dev + 1}] :
          disk = [i \in Inos |->
                    Inode(i, [BaseFile EXCEPT !.dev = devOf[i]],
                          IF i = 1 THEN 1 + NumPaths - NumInos ELSE 1)]
    /\ tree = [p \in 1 .. NumPaths |->
                 [Ino |-> IF p <= NumInos THEN p ELSE 1, Filename |-> "f"]]
    /\ \E t \in {0, 1} : MyOptions = [DefaultOptions EXCEPT !.LinearSearchThresh = t]
    /\ MaxNLinks = 2 * NumPaths

InitOfDevs == InitEngine /\ InitDevs

NextDevs ==
    \/ LinkableFindIdenticalFiles
    \/ MisroutedFindIdenticalFiles
    \/ SortedLinks
    \/ NextLinkedSet
    \/ CloseLinks
    \/ NextSrc
    \/ NextDst
    \/ NextDstPath
    \/ ApplyLink

SpecDevs == InitOfDevs /\ [][NextDevs]_vars

\* the inodes the FSDev followed holds anywhere: in its indexes, its maps, and
\* the pairs it has sent
HeldInos ==
    IndexedInos \cup DOMAIN InoStatInfo \cup DOMAIN InoPaths
        \cup {out[i].Src.Info.Ino : i \in DOMAIN out}
        \cup {out[i].Dst.Info.Ino : i \in DOMAIN out}

\* C21: Linkable has one FSDev for each device a walked path is on, and each
\* was handed all the walked paths of its device (made at first use, reused
\* after); every inode the FSDev of a device holds, in an edge or in a pair
\* sent, is on that device; and a findIdenticalFiles handed a stat of another
\* device panics and changes none of the indexes.
C21_OneFSDevPerDevice ==
    /\ [](/\ DOMAIN FSDevs = {disk[tree[p].Ino].dev : p \in walked}
          /\ \A dev \in DOMAIN FSDevs :
                FSDevs[dev] = {p \in walked : disk[tree[p].Ino].dev = dev}
          /\ \A ino \in HeldInos : disk[ino].dev = Dev)
    /\ [][/\ (\E p \in (DOMAIN tree) \ walked : DevMismatch(p) /\ walked' = walked)
             => (pc' = "panic" /\ UNCHANGED <<fsvars, Stats>>)
          /\ pc' = "panic" /\ pc = "walk" => UNCHANGED <<fsvars, Stats, FSDevs>>
         ]_vars

\* the FSDev followed holds an edge and was handed a path of the other
\* device, after both devices' FSDevs had been made and the one followed used
\* again
C21_Witness ==
    /\ pc = "panic"
    /\ DOMAIN LinkedInos # {}
    /\ DOMAIN FSDevs = {Dev, Dev + 1}
    /\ Cardinality(FSDevs[Dev]) >= 2

-----------------------------------------------------------------------------
(* The linker: quiescence check, link at a temporary name, rename *)

\* what the link step leaves alone
unlinkedvars ==
    <<MyOptions, MaxNLinks, hashed, FSDevs, validated, run, sets, fsvars, Stats, walked, pc,
      planvars>>

\* the temporary name beside dst_path
TmpName == NumPaths + 1

\* LStatInfo: the device and the StatInfo a pathname has now
LStatInfo(pathname) ==
    [Dev |-> disk[tree[pathname].Ino].dev, StatInfo |-> disk[tree[pathname].Ino].stat]

\* PathInfo: a pathname and the StatInfo recorded for it
PathInfo(pathname) == [Pathsplit |-> SplitPathname(pathname), StatInfo |-> Lstat(pathname)]

\* faulty variant: the link count and the owner are not compared
hasBeenModifiedNoNlink(pi, dev) ==
    LET pathname == pi.Pathsplit.Dirname
    IN  \/ pathname \notin DOMAIN tree
        \/ LET cur == LStatInfo(pathname)
           IN  \/ cur.Dev # dev
               \/ cur.StatInfo.Ino # pi.StatInfo.Ino
               \/ cur.StatInfo.Size # pi.StatInfo.Size
               \/ cur.StatInfo.Sec # pi.StatInfo.Sec
               \/ cur.StatInfo.Nsec # pi.StatInfo.Nsec
               \/ cur.StatInfo.Mode # pi.StatInfo.Mode

\* hasBeenModified: the pathname cannot be stat'ed, or its stat is not the
\* recorded one (device, inode, size, mtime, uid, gid, mode, nlink)
hasBeenModified(pi, dev) ==
    LET pathname == pi.Pathsplit.Dirname
    IN  \/ pathname \notin DOMAIN tree
        \/ LET cur == LStatInfo(pathname)
           IN  \/ cur.Dev # dev
               \/ cur.StatInfo # pi.StatInfo

\* haveNotBeenModified: TRUE when it returns an error
haveNotBeenModified(src, dst) == hasBeenModified(src, Dev) \/ hasBeenModified(dst, Dev)

\* link(src_path, tmp_name)
LinkSyscall(t, d, srcPath) ==
    [tree |-> Put(t, TmpName, [Ino |-> t[srcPath].Ino, Filename |-> "tmp"]),
     disk |-> [d EXCEPT ![t[srcPath].Ino].stat.Nlink = @ + 1]]

\* faulty variant: dst_path is removed and tmp_name renamed after
RenameSyscallUnlinked(t, d, dstPath) ==
    [tree |-> Del(t, dstPath),
     disk |-> [d EXCEPT ![t[dstPath].Ino].stat.Nlink = @ - 1]]

\* rename(tmp_name, dst_path): dst_path takes tmp_name's inode in one step
RenameSyscall(t, d, dstPath) ==
    [tree |-> Del(Put(t, dstPath, [t[dstPath] EXCEPT !.Ino = t[TmpName].Ino]), TmpName),
     disk |-> [d EXCEPT ![t[dstPath].Ino].stat.Nlink = @ - 1]]

\* the planner hands the linker a pair: two paths of two inodes of the
\* device, with the StatInfo of the walk
PlanPair ==
    /\ linker.pc = "idle"
    /\ \E srcPath \in DOMAIN tree, dstPath \in DOMAIN tree :
          /\ tree[srcPath].Ino # tree[dstPath].Ino
          /\ disk[tree[srcPath].Ino].dev = Dev
          /\ disk[tree[dstPath].Ino].dev = Dev
          /\ linker' = [pc |-> "planned", err |-> FALSE, touched |-> FALSE,
                        src |-> PathInfo(srcPath), dst |-> PathInfo(dstPath)]
    /\ UNCHANGED <<disk, tree, unlinkedvars>>

\* the files change between the walk and the link step: a stat field of an
\* inode, the device a path is on, or the inode a path names (a new file with
\* the same metadata took its place)
Modify ==
    /\ linker.pc = "planned"
    /\ ~linker.touched
    /\ linker' = [linker EXCEPT !.touched = TRUE]
    /\ \/ /\ \E ino \in Inos \ {NumInos} :
               \E field \in {"Size", "Sec", "Nsec", "Nlink", "Uid", "Gid", "Mode"} :
                  disk' = [disk EXCEPT ![ino].stat[field] = @ + 1]
          /\ tree' = tree
       \/ /\ \E ino \in Inos \ {NumInos} : disk' = [disk EXCEPT ![ino].dev = Dev + 1]
          /\ tree' = tree
       \/ /\ \E p \in DOMAIN tree :
               LET old == tree[p].Ino
               IN  /\ tree' = [tree EXCEPT ![p].Ino = NumInos]
                   /\ disk' = [disk EXCEPT
                                 ![NumInos] = [disk[old] EXCEPT !.stat.Ino = NumInos,
                                                                !.stat.Nlink = 1],
                                 ![old].stat.Nlink = @ - 1]
       \/ /\ \E p \in DOMAIN tree :
               /\ tree' = Del(tree, p)
               /\ disk' = [disk EXCEPT ![tree[p].Ino].stat.Nlink = @ - 1]
    /\ UNCHANGED unlinkedvars

\* hardlinkFiles, first step: the quiescence check of both paths
CheckQuiescence ==
    /\ linker.pc = "planned"
    /\ IF haveNotBeenModified(linker.src, linker.dst)
       THEN linker' = [linker EXCEPT !.pc = "failed", !.err = TRUE]
       ELSE linker' = [linker EXCEPT !.pc = "checked"]
    /\ UNCHANGED <<disk, tree, unlinkedvars>>

\* hardlinkFiles, second step: link src_path at the temporary name; the
\* syscall may fail
LinkTmp ==
    /\ linker.pc = "checked"
    /\ \/ LET r == LinkSyscall(tree, disk, linker.src.Pathsplit.Dirname)
          IN  /\ tree' = r.tree
              /\ disk' = r.disk
              /\ linker' = [linker EXCEPT !.pc = "linked"]
       \/ /\ linker' = [linker EXCEPT !.pc = "failed", !.err = TRUE]
          /\ UNCHANGED <<disk, tree>>
    /\ UNCHANGED unlinkedvars

\* hardlinkFiles, third step: rename the temporary name over dst_path; the
\* syscall may fail
RenameTmp ==
    /\ linker.pc = "linked"
    /\ \/ LET r == RenameSyscall(tree, disk, linker.dst.Pathsplit.Dirname)
          IN  /\ tree' = r.tree
              /\ disk' = r.disk
              /\ linker' = [linker EXCEPT !.pc = "done"]
       \/ /\ linker' = [linker EXCEPT !.pc = "failed", !.err = TRUE]
          /\ UNCHANGED <<disk, tree>>
    /\ UNCHANGED unlinkedvars

\* Runs of the link step: files of the same metadata on the device, the last
\* inode free (no path, no link), the first inode with the paths left over
InitLinker ==
    /\ disk = [i \in Inos |->
                 Inode(i, BaseFile,
                       IF i = NumInos THEN 0
                       ELSE IF i = 1 THEN 2 + NumPaths - NumInos ELSE 1)]
    /\ tree = [p \in 1 .. NumPaths |->
                 [Ino |-> IF p < NumInos THEN p ELSE 1, Filename |-> "f"]]
    /\ MyOptions = DefaultOptions
    /\ MaxNLinks = 2 * NumPaths

InitOfLinker == InitEngine /\ InitLinker

NextLinker ==
    \/ PlanPair
    \/ Modify
    \/ CheckQuiescence
    \/ LinkTmp
    \/ RenameTmp

SpecLinker == InitOfLinker /\ [][NextLinker]_vars

\* the stat a recorded PathInfo's pathname has now is not the recorded one, in
\* one at least of device, inode, nlink, mtime, uid, gid, mode, size
StatDiffers(pi) ==
    LET pathname == pi.Pathsplit.Dirname
    IN  \/ pathname \notin DOMAIN tree
        \/ LET ino == tree[pathname].Ino
           IN  \/ disk[ino].dev # Dev
               \/ \E field \in {"Ino", "Nlink", "Sec", "Nsec", "Uid", "Gid", "Mode", "Size"} :
                     disk[ino].stat[field] # pi.StatInfo[field]

\* C22: hasBeenModified is true exactly when the current stat of the recorded
\* path differs from the recorded one in one of device, inode, nlink, mtime,
\* uid, gid, mode, size; and when it is true of the src or of the dst of the
\* pair the link step ends with an error having made no link and no rename:
\* the filesystem is as it was, dst_path on its inode.
C22_Quiescence ==
    /\ [](linker.pc = "planned" =>
            /\ hasBeenModified(linker.src, Dev) <=> StatDiffers(linker.src)
            /\ hasBeenModified(linker.dst, Dev) <=> StatDiffers(linker.dst))
    /\ [][linker.pc = "planned" /\ linker'.pc # "planned" =>
             IF StatDiffers(linker.src) \/ StatDiffers(linker.dst)
             THEN linker'.pc = "failed" /\ linker'.err /\ UNCHANGED <<disk, tree>>
             ELSE linker'.pc = "checked" /\ ~linker'.err]_vars
    /\ [][linker.pc = "failed" => UNCHANGED <<disk, tree, linker>>]_vars

\* the link step has failed at its check after the link count of an inode of
\* the pair had changed
C22_Witness ==
    /\ linker.pc = "failed"
    /\ linker.touched
    /\ TmpName \notin DOMAIN tree
    /\ \E pi \in {linker.src, linker.dst} :
          /\ pi.Pathsplit.Dirname \in DOMAIN tree
          /\ LStatInfo(pi.Pathsplit.Dirname).StatInfo.Ino = pi.StatInfo.Ino
          /\ LStatInfo(pi.Pathsplit.Dirname).StatInfo.Nlink # pi.StatInfo.Nlink

\* the pathname and the inode of a recorded PathInfo
PathOf(pi) == pi.Pathsplit.Dirname

\* C23: a link step that succeeds ends with src_path and dst_path on the src
\* inode, its link count the recorded one plus one, and no temporary name
\* left; from the passed check on, after every step dst_path exists and names
\* the old dst inode or the src inode; and a step that fails leaves dst_path on
\* the old dst inode.
C23_AtomicReplace ==
    /\ [](linker.pc = "done" =>
            /\ {PathOf(linker.src), PathOf(linker.dst)} \subseteq DOMAIN tree
            /\ tree[PathOf(linker.src)].Ino = linker.src.StatInfo.Ino
            /\ tree[PathOf(linker.dst)].Ino = linker.src.StatInfo.Ino
            /\ Lstat(PathOf(linker.dst)).Nlink = linker.src.StatInfo.Nlink + 1
            /\ disk[linker.dst.StatInfo.Ino].stat.Nlink = linker.dst.StatInfo.Nlink - 1
            /\ TmpName \notin DOMAIN tree)
    /\ [][linker.pc \in {"checked", "linked"} =>
             /\ PathOf(linker.dst) \in DOMAIN tree'
             /\ tree'[PathOf(linker.dst)].Ino
                   \in {linker.dst.StatInfo.Ino, linker.src.StatInfo.Ino}
             /\ linker'.pc # "done" => tree'[PathOf(linker.dst)].Ino = linker.dst.StatInfo.Ino
         ]_vars

\* a src inode of several links was linked over a dst: one link more now
C23_Witness ==
    /\ linker.pc = "done"
    /\ linker.src.StatInfo.Nlink >= 2
    /\ Lstat(PathOf(linker.dst)).Nlink = linker.src.StatInfo.Nlink + 1
    /\ Lstat(PathOf(linker.src)) = Lstat(PathOf(linker.dst))

-----------------------------------------------------------------------------
(* Options.Validate *)

\* the largest MinFileSize and MaxFileSize drawn
MaxSize == 2

\* the Options a caller can hand to Validate: SetupOptions' result with any
\* member set after (the members Validate reads or writes, and SearchThresh
\* for the others)
OptionsGiven ==
    [MinFileSize : 0 .. MaxSize, MaxFileSize : 0 .. MaxSize,
     LinkingEnabled : BOOLEAN, CheckQuiescence : BOOLEAN,
     ShowExtendedRunStats : BOOLEAN, ShowRunStats : BOOLEAN,
     SearchThresh : {-1, 1}]

\* faulty variant: a MaxFileSize of 0 is taken as a size
ValidateZeroBounded(o) ==
    IF o.MaxFileSize < o.MinFileSize
    THEN [err |-> TRUE, o |-> o]
    ELSE LET o1 == IF o.ShowExtendedRunStats THEN [o EXCEPT !.ShowRunStats = TRUE] ELSE o
             o2 == IF o1.LinkingEnabled THEN [o1 EXCEPT !.CheckQuiescence = TRUE] ELSE o1
         IN  [err |-> FALSE, o |-> o2]

\* faulty variant: CheckQuiescence follows LinkingEnabled both ways
ValidateQuiescenceFollows(o) ==
    IF o.MaxFileSize > 0 /\ o.MaxFileSize < o.MinFileSize
    THEN [err |-> TRUE, o |-> o]
    ELSE LET o1 == IF o.ShowExtendedRunStats THEN [o EXCEPT !.ShowRunStats = TRUE] ELSE o
         IN  [err |-> FALSE, o |-> [o1 EXCEPT !.CheckQuiescence = o1.LinkingEnabled]]

\* Options.Validate: the error it returns and the Options it leaves
Validate(o) ==
    IF o.MaxFileSize > 0 /\ o.MaxFileSize < o.MinFileSize
    THEN [err |-> TRUE, o |-> o]
    ELSE LET o1 == IF o.ShowExtendedRunStats THEN [o EXCEPT !.ShowRunStats = TRUE] ELSE o
             o2 == IF o1.LinkingEnabled THEN [o1 EXCEPT !.CheckQuiescence = TRUE] ELSE o1
         IN  [err |-> FALSE, o |-> o2]

\* what the Options actions leave alone
unvalidatedvars ==
    <<disk, tree, MyOptions, MaxNLinks, hashed, FSDevs, linker, run, sets, fsvars, Stats,
      walked, pc, planvars>>

\* the caller sets up its Options
GiveOptions ==
    /\ ~validated.set
    /\ \E o \in OptionsGiven :
          validated' = [calls |-> 0, set |-> TRUE, err |-> FALSE, o |-> o, before |-> o]
    /\ UNCHANGED unvalidatedvars

\* o.Validate(), called on the Options as the call before left them
CallValidate ==
    /\ validated.set
    /\ validated.calls < 2
    /\ LET r == Validate(validated.o)
       IN  validated' = [validated EXCEPT !.calls = @ + 1, !.err = r.err, !.o = r.o,
                                          !.before = validated.o]
    /\ UNCHANGED unvalidatedvars

NextValidate == GiveOptions \/ CallValidate

SpecValidate == InitOfLinker /\ [][NextValidate]_vars

\* C24: Validate returns an error exactly when MaxFileSize is bounded (not 0)
\* and below MinFileSize, and then it has changed no member of the Options.
C24_ValidateError ==
    validated.calls >= 1 =>
       LET o == validated.before
       IN  /\ validated.err <=> ~(o.MaxFileSize = 0 \/ o.MinFileSize <= o.MaxFileSize)
           /\ validated.err => validated.o = o

\* Validate refused Options whose sizes conflict and that it would have
\* normalised
C24_Witness ==
    /\ validated.calls >= 1
    /\ validated.err
    /\ validated.o.LinkingEnabled /\ ~validated.o.CheckQuiescence
    /\ validated.o.MinFileSize > validated.o.MaxFileSize

\* C25: after a Validate without error LinkingEnabled implies CheckQuiescence
\* and ShowExtendedRunStats implies ShowRunStats, nothing else has changed
\* (the two members only from off to on, and only when implied), and a second
\* Validate changes nothing.
C25_ValidateNormalises ==
    validated.calls >= 1 /\ ~validated.err =>
       LET o  == validated.o
           o0 == validated.before
       IN  /\ o.LinkingEnabled => o.CheckQuiescence
           /\ o.ShowExtendedRunStats => o.ShowRunStats
           /\ \A f \in DOMAIN o \ {"CheckQuiescence", "ShowRunStats"} : o[f] = o0[f]
           /\ o.CheckQuiescence = (o0.CheckQuiescence \/ o0.LinkingEnabled)
           /\ o.ShowRunStats = (o0.ShowRunStats \/ o0.ShowExtendedRunStats)
           /\ validated.calls = 2 => o = o0

\* Validate was called twice on Options whose two dependent members it set at
\* the first call
C25_Witness ==
    /\ validated.calls = 2
    /\ ~validated.err
    /\ validated.o.LinkingEnabled /\ validated.o.CheckQuiescence
    /\ validated.o.ShowExtendedRunStats /\ validated.o.ShowRunStats
    /\ validated.o.MaxFileSize = 0 /\ validated.o.MinFileSize > 0

-----------------------------------------------------------------------------
(* Run: the size filters of the walk *)

\* fi.Size() < options.MinFileSize
FileTooSmall(size, o) == size < o.MinFileSize

\* faulty variant: a MaxFileSize of 0 is taken as a size
FileTooLargeZeroBounded(size, o) == size > o.MaxFileSize

\* options.MaxFileSize > 0 && fi.Size() > options.MaxFileSize
FileTooLarge(size, o) == o.MaxFileSize > 0 /\ size > o.MaxFileSize

\* Run is started with its size options: validated ones, and with the
\* pathnames that will be gone when Run stats them
StartRun ==
    /\ pc = "walk"
    /\ ~run.set
    /\ \E o \in [MinFileSize : 0 .. MaxSize, MaxFileSize : 0 .. MaxSize],
          gone \in {{}, {NumPaths}} :
          /\ ~Validate(o @@ [ShowExtendedRunStats |-> FALSE, ShowRunStats |-> FALSE,
                             LinkingEnabled |-> FALSE, CheckQuiescence |-> FALSE]).err
          /\ run' = [set |-> TRUE, options |-> o, gone |-> gone, numFiles |-> 0,
                     numFilesTooSmall |-> 0, numFilesTooLarge |-> 0, ingested |-> <<>>]
    /\ UNCHANGED <<disk, tree, MyOptions, MaxNLinks, hashed, FSDevs, linker, validated, sets,
                   fsvars, Stats, walked, pc, planvars>>

\* Run, one turn of its loop over the matched pathnames
RunPathname ==
    /\ pc = "walk"
    /\ run.set
    /\ \E pathname \in (DOMAIN tree) \ walked :
          /\ walked' = walked \cup {pathname}
          /\ IF pathname \in run.gone
             THEN UNCHANGED <<run, fsvars, Stats>>
             ELSE LET size == Lstat(pathname).Size
                  IN  IF FileTooSmall(size, run.options)
                      THEN /\ run' = Inc(run, "numFilesTooSmall")
                           /\ UNCHANGED <<fsvars, Stats>>
                      ELSE IF FileTooLarge(size, run.options)
                      THEN /\ run' = Inc(run, "numFilesTooLarge")
                           /\ UNCHANGED <<fsvars, Stats>>
                      ELSE /\ run' = [Inc(run, "numFiles") EXCEPT
                                         !.ingested = Append(@, pathname)]
                           /\ findIdenticalFiles(pathname)
    /\ UNCHANGED <<disk, tree, MyOptions, MaxNLinks, hashed, FSDevs, linker, validated, sets,
                   pc, planvars>>

\* Runs of the walk: inode i of size i, the first inode with the paths left
\* over, everything else alike
InitRun ==
    /\ disk = [i \in Inos |->
                 Inode(i, [BaseFile EXCEPT !.Size = i, !.content = [k \in 1 .. i |-> 0]],
                       IF i = 1 THEN 1 + NumPaths - NumInos ELSE 1)]
    /\ tree = [p \in 1 .. NumPaths |->
                 [Ino |-> IF p <= NumInos THEN p ELSE 1, Filename |-> "f"]]
    /\ MyOptions = DefaultOptions
    /\ MaxNLinks = 2 * NumPaths

InitOfRun == InitEngine /\ InitRun

NextRun == StartRun \/ RunPathname

SpecRun == InitOfRun /\ [][NextRun]_vars

\* the walked pathnames that could be stat'ed
Statted == IF run.set THEN walked \ run.gone ELSE {}

\* the pathnames the engine has recorded
EnginePaths == UNION {RecordedPaths(ino) : ino \in DOMAIN InoPaths}

\* C26: of the walked files that could be stat'ed, those below MinFileSize
\* were counted too small, those above a MaxFileSize other than 0 too large,
\* and the others were counted as files and handed to the engine, once each;
\* no file is in two of the three, the file count is the number of ingests,
\* and the engine holds the paths of the ingested files and no other.
C26_SizeFilter ==
    run.set =>
       LET o     == run.options
           small == {p \in Statted : Lstat(p).Size < o.MinFileSize}
           large == {p \in Statted : o.MaxFileSize # 0 /\ Lstat(p).Size > o.MaxFileSize}
           sent  == {run.ingested[i] : i \in DOMAIN run.ingested}
       IN  /\ small \cap large = {}
           /\ run.numFilesTooSmall = Cardinality(small)
           /\ run.numFilesTooLarge = Cardinality(large)
           /\ sent = Statted \ (small \cup large)
           /\ Cardinality(sent) = Len(run.ingested)
           /\ run.numFiles = Len(run.ingested)
           /\ EnginePaths = {SplitPathname(p) : p \in sent}
           /\ DOMAIN InoStatInfo = {tree[p].Ino : p \in sent}

\* a walk with both bounds set has met a file of each outcome, and a pathname
\* that was gone
C26_Witness ==
    /\ run.set
    /\ run.numFilesTooSmall >= 1
    /\ run.numFilesTooLarge >= 1
    /\ run.numFiles >= 1
    /\ walked \cap run.gone # {}

-----------------------------------------------------------------------------
(* The inode Set: a Go map from Ino to the empty struct *)

\* NewSet(inos...): the map with these keys
NewSet(inos) == [ino \in inos |-> TRUE]

\* s.Add(ino): s[ino] = exists
SetAdd(s, ino) == Put(s, ino, TRUE)

\* s.Has(ino)
SetHas(s, ino) == ino \in DOMAIN s

\* faulty variant: the keys ranged over are kept without looking them up
rangeKeepAll(order, keep, k) ==
    NewSet({order[i] : i \in k .. Len(order)})

\* for k := range little: the keys from the k-th of the order on, those kept that
\* pass the test
RECURSIVE rangeKeep(_, _, _)
rangeKeep(order, keep, k) ==
    IF k > Len(order) THEN NewSet({})
    ELSE LET rest == rangeKeep(order, keep, k + 1)
         IN  IF keep[order[k]] THEN SetAdd(rest, order[k]) ELSE rest

\* s.Intersection(set2): the keys of the smaller of the two that the larger
\* has, ranged over in any order
Intersection(s, set2) ==
    LET little == IF Cardinality(DOMAIN s) <= Cardinality(DOMAIN set2) THEN s ELSE set2
        big    == IF Cardinality(DOMAIN s) <= Cardinality(DOMAIN set2) THEN set2 ELSE s
    IN  {rangeKeep(order, [ino \in DOMAIN little |-> SetHas(big, ino)], 1) :
            order \in AsSlice(DOMAIN little)}

\* s.Difference(other): the keys of s that other has not
Difference(s, other) ==
    {rangeKeep(order, [ino \in DOMAIN s |-> ~SetHas(other, ino)], 1) :
        order \in AsSlice(DOMAIN s)}

\* SetIntersection(sets...): the first set intersected with each of the others
\* in turn
RECURSIVE SetIntersection(_, _, _)
SetIntersection(result, others, k) ==
    IF k > Len(others) THEN {result}
    ELSE UNION {SetIntersection(r, others, k + 1) : r \in Intersection(result, others[k])}

\* what the Set actions leave alone
unsetvars ==
    <<disk, tree, MyOptions, MaxNLinks, hashed, FSDevs, linker, validated, run, fsvars,
      Stats, walked, pc, planvars>>

\* one step of the tests: an Ino is added to one of the three Sets, and the
\* Sets are intersected and subtracted
AddAndCombine ==
    /\ \E which \in 1 .. 3, ino \in Inos :
          LET s == [sets.s EXCEPT ![which] = SetAdd(@, ino)]
          IN  \E in12 \in Intersection(s[1], s[2]), in21 \in Intersection(s[2], s[1]),
                 in123 \in SetIntersection(s[1], <<s[2], s[3]>>, 1),
                 diff12 \in Difference(s[1], s[2]), diff21 \in Difference(s[2], s[1]) :
                 sets' = [calls |-> 1, s |-> s,
                          added |-> [sets.added EXCEPT ![which] = @ \cup {ino}],
                          last |-> [had |-> SetHas(sets.s[which], ino),
                                    kept |-> s[which] = sets.s[which]],
                          in12 |-> in12, in21 |-> in21, in123 |-> in123,
                          diff12 |-> diff12, diff21 |-> diff21]
    /\ UNCHANGED unsetvars

NextSet == AddAndCombine

SpecSet == InitOfLinker /\ [][NextSet]_vars

\* C27: each Set is the map of the elements that were added to it, whatever
\* their order and however often; adding an element it has leaves it as it
\* was; the two binary intersections are the common elements of the two Sets
\* and the n-ary one those of the three; each difference is the receiver's
\* elements the argument has not.
C27_SetAlgebra ==
    sets.calls >= 1 =>
       LET A == sets.added
       IN  /\ \A k \in 1 .. 3 : sets.s[k] = NewSet(A[k])
           /\ sets.last.had => sets.last.kept
           /\ sets.in12 = NewSet(A[1] \cap A[2])
           /\ sets.in21 = NewSet(A[1] \cap A[2])
           /\ sets.in123 = NewSet(A[1] \cap A[2] \cap A[3])
           /\ sets.diff12 = NewSet(A[1] \ A[2])
           /\ sets.diff21 = NewSet(A[2] \ A[1])

\* three Sets that overlap in one element only, two by two in more, after an
\* element was added again
C27_Witness ==
    /\ sets.calls >= 1
    /\ sets.last.had
    /\ Cardinality(DOMAIN sets.in123) = 1
    /\ Cardinality(DOMAIN sets.in12) = 2
    /\ sets.diff12 # NewSet({})
    /\ sets.s[1] # sets.s[2]

-----------------------------------------------------------------------------
(* Digests: when they are registered, how often, and unreadable files *)

\* the pathname a step ingests into the FSDev followed, as a set (empty when
\* the step is no ingest here)
IngestedNow == {p \in walked' \ walked : routedHere(p)}

\* the step searches the bucket of the pathname's hash for a new inode
Searches(p) ==
    /\ tree[p].Ino \notin DOMAIN InoStatInfo
    /\ InoHash(Lstat(p), MyOptions) \in DOMAIN InoHashes

BucketOf(p) == InoHashes[InoHash(Lstat(p), MyOptions)]

\* the step's search ended without a match: the inode joined the bucket
Unmatched(p) == tree[p].Ino \in InoHashes'[InoHash(Lstat(p), MyOptions)]

\* a digest of the inode can be computed
Digestible(ino) == ~contentDigest(ino).err

\* the cached inodes of the bucket that pass the inode parameter checks
\* against the file of the pathname
Comparable(p) == {c \in BucketOf(p) : inodeParamsMatch(InoStatInfo[c], Lstat(p))}

C29_DigestOnce ==
    /\ Stats.DigestComputedCount = Cardinality(InosWithDigest)
    /\ \A ino \in InosWithDigest :
          /\ Digestible(ino)
          /\ {d \in DOMAIN DigestIno : ino \in DigestIno[d]} = {contentDigest(ino).digest}

\* three inodes have their digest, and a cached inode that had its digest was
\* compared again in digest mode
C29_Witness ==
    /\ Cardinality(InosWithDigest) = 3
    /\ Stats.ComparisonCount >= 3
    /\ MyOptions.LinearSearchThresh = 0

\* C30: when a search in digest mode cannot read the digest of the ingested
\* file, that inode gets no digest entry and no digest is counted for it (the
\* digests counted are those of cached inodes), no cached inode is left out:
\* every one that passes the inode parameter checks is compared, up to a
\* match, and the ingest completes: the inode has its StatInfo and its path,
\* and is in the bucket or linked.
C30_UnreadableDigest ==
    [][\A p \in IngestedNow :
          LET ino == tree[p].Ino
              n   == Stats'.ComparisonCount - Stats.ComparisonCount
          IN  Searches(p) /\ useDigestFor(BucketOf(p)) /\ ~Digestible(ino) =>
                 /\ ino \notin InosWithDigest'
                 /\ \A d \in DOMAIN DigestIno' : ino \notin DigestIno'[d]
                 /\ InosWithDigest' \ InosWithDigest \subseteq Comparable(p)
                 /\ Stats'.DigestComputedCount - Stats.DigestComputedCount
                       = Cardinality(InosWithDigest' \ InosWithDigest)
                 /\ IF Unmatched(p)
                    THEN n = Cardinality(Comparable(p))
                    ELSE /\ n \in 1 .. Cardinality(Comparable(p))
                         /\ LinkedInos'[ino] \cap Comparable(p) # {}
                 /\ ino \in DOMAIN InoStatInfo'
                 /\ SplitPathname(p) \in RecordedPaths(ino)'
      ]_vars

\* an unreadable file was searched in digest mode against two cached inodes, one
\* of a digest already known: both were compared, and it has no digest
C30_Witness ==
    \E ino \in DOMAIN InoStatInfo :
       /\ ~disk[ino].readable
       /\ ino \notin InosWithDigest
       /\ \E h \in DOMAIN InoHashes :
             /\ ino \in InoHashes[h]
             /\ Cardinality(InoHashes[h]) = 3
             /\ InoHashes[h] \ {ino} \subseteq InosWithDigest
       /\ Stats.ComparisonCount = 3
       /\ Stats.DigestComputedCount = 2

-----------------------------------------------------------------------------
(* The digest sets of a search, the planner's order, the components *)

\* The runs that vary the tree, the link counts, the cap and SameName: the
\* planner's cases
InitOfLinks == InitEngine /\ InitLinks

SpecLinks == InitOfLinks /\ [][Next]_vars

\* the three sets of a search in digest mode, as findIdenticalFiles takes them
\* once the digest of the pathname's file is registered
DigestOf(p) == contentDigest(tree[p].Ino).digest

NoDigestSetOf(p) == BucketOf(p) \ (InosWithDigest \cup {tree[p].Ino})

SameDigestSetOf(p) ==
    BucketOf(p) \cap ((IF DigestOf(p) \in DOMAIN DigestIno THEN DigestIno[DigestOf(p)] ELSE {})
                         \cup {tree[p].Ino})

DifferentDigestSetOf(p) == (BucketOf(p) \ SameDigestSetOf(p)) \ NoDigestSetOf(p)

\* the step is a search in digest mode for a file whose digest could be read
DigestSearch(p) == Searches(p) /\ useDigestFor(BucketOf(p)) /\ Digestible(tree[p].Ino)

\* C31: in a search in digest mode the cached inodes of the same digest,
\* those without a digest and those of another digest are pairwise disjoint
\* and make up the bucket, and the ingested inode is not among those without
\* a digest; the inodes of another digest are those whose own digest differs;
\* the search compares no inode of another digest, and compares an inode
\* without a digest only after all those of the same digest.
C31_DigestSets ==
    [][\A p \in IngestedNow :
          DigestSearch(p) =>
             LET ino  == tree[p].Ino
                 same == SameDigestSetOf(p)
                 no   == NoDigestSetOf(p)
                 diff == DifferentDigestSetOf(p)
                 n    == Stats'.ComparisonCount - Stats.ComparisonCount
             IN  /\ same \cap no = {} /\ same \cap diff = {} /\ no \cap diff = {}
                 /\ same \cup no \cup diff = BucketOf(p)
                 /\ ino \notin no
                 /\ \A c \in BucketOf(p) :
                       c \in diff <=> (c \in InosWithDigest
                                         /\ contentDigest(c).digest # DigestOf(p))
                 /\ InosWithDigest' \ InosWithDigest \subseteq no \cup {ino}
                 /\ IF Unmatched(p)
                    THEN n = Cardinality(Comparable(p) \cap (same \cup no))
                    ELSE \E c \in LinkedInos'[ino] \cap Comparable(p) :
                            IF c \in same
                            THEN /\ n <= Cardinality(Comparable(p) \cap same)
                                 /\ InosWithDigest' \ InosWithDigest \subseteq {ino}
                            ELSE /\ c \in no
                                 /\ n > Cardinality(Comparable(p) \cap same)
      ]_vars

\* a file was found equal to a cached inode of its digest while the bucket
\* held an inode without a digest, which was not compared with it
C31_Witness ==
    \E ino \in DOMAIN LinkedInos, h \in DOMAIN InoHashes :
       /\ ino \in InosWithDigest
       /\ ino \notin InoHashes[h]
       /\ \E c \in InoHashes[h] \cap LinkedInos[ino] : c \in InosWithDigest
       /\ \E c \in InoHashes[h] \ InosWithDigest :
             inodeParamsMatch(InoStatInfo[c], InoStatInfo[ino])
       /\ Stats.ComparisonCount = 2
       /\ Stats.EqualComparisonCount = 1

\* the planner's record of an inode's link count, as the sort reads it
NlinkEntry(ino) == [Ino |-> ino, Nlink |-> statOf(InoStatInfo, ino).Nlink]

Range(s) == {s[i] : i \in DOMAIN s}

\* the step takes a src in sendLinkedPairs, the step takes a dst
PicksSrc == pc = "outer" /\ pc' = "inner"

PicksDst == pc = "inner" /\ pc' \in {"paths", "outer"} /\ Len(sortedInos) > 0

\* a is sorted before b: more links, or as many and the lower inode number
SortsBefore(a, b) == a.Nlink > b.Nlink \/ (a.Nlink = b.Nlink /\ a.Ino < b.Ino)

\* C32: whenever the planner takes a src, no inode still pending in the
\* component is recorded with more links than src, and whenever it takes a
\* dst, no inode still pending is recorded with fewer links than dst, equal
\* link counts being ordered by inode number: on the first pass and after
\* remainingInos was recycled, with SameName and without.
C32_AsStated ==
    [][/\ PicksSrc =>
             \A i \in Range(sortedInos') :
                ~SortsBefore(NlinkEntry(i), NlinkEntry(srcIno'))
       /\ PicksDst =>
             \A i \in Range(sortedInos) :
                ~SortsBefore(NlinkEntry(dstIno'), NlinkEntry(i))
      ]_vars

\* the pairs sent so far for the component of the inode all have it as Src
OnlySrcSoFar(ino) ==
    \A k \in DOMAIN out :
       out[k].Src.Info.Ino \in linkedInoSet(ino) => out[k].Src.Info.Ino = ino

\* C32 as amended: without SameName, on the first pass and after every
\* recycling of remainingInos, no pending inode sorts before the src taken and
\* the dst taken sorts before no pending inode (more links first, the lower
\* inode number among equal link counts); with SameName the same holds as long
\* as the component's pairs all have the src at hand as their Src, hence on the
\* first pass.
C32_SelectionOrderAmended ==
    [][/\ (PicksSrc /\ (~MyOptions.SameName \/ OnlySrcSoFar(srcIno'))) =>
             \A i \in Range(sortedInos') :
                ~SortsBefore(NlinkEntry(i), NlinkEntry(srcIno'))
       /\ (PicksDst /\ (~MyOptions.SameName \/ OnlySrcSoFar(srcIno))) =>
             \A i \in Range(sortedInos) :
                ~SortsBefore(NlinkEntry(dstIno'), NlinkEntry(i))
      ]_vars

\* without SameName a src was taken from the recycled inodes, an earlier src
\* of the component being retired, and another inode is still pending
C32_Witness ==
    /\ ~MyOptions.SameName
    /\ pc = "inner"
    /\ sortedInos # <<>>
    /\ linkedInoSet(srcIno) \ (Range(sortedInos) \cup {srcIno}) # {}

\* Runs over the graphs addLinkableInos builds on NumInos + 1 inodes, and
\* linkedInoSets over each of them
GraphInos == 1 .. NumInos + 1

InitOfGraph ==
    /\ InitEngine
    /\ disk = <<>>
    /\ tree = <<>>
    /\ MyOptions = DefaultOptions
    /\ MaxNLinks = 2 * NumPaths

\* addLinkableInos(ino1, ino2) for two inodes found equal
AddLinkableInos ==
    /\ pc = "walk"
    /\ \E ino1, ino2 \in GraphInos :
          /\ ino1 # ino2
          /\ LinkedInos' = addLinkableInos(LinkedInos, ino1, ino2)
    /\ UNCHANGED <<envvars, InoHashes, InoStatInfo, InoPaths, DigestIno, InosWithDigest,
                   Stats, walked, pc, planvars>>

\* linkedInoSets, one turn of its loop over the start inodes: a start inode
\* still in remainingInos is drained and the result set is sent (it is kept,
\* sorted, where SortedLinks receives it)
linkedInoSetsYield ==
    /\ pc = "sets"
    /\ \E startIno \in DOMAIN linkedRemaining :
          LET r == drainPending({startIno}, linkedRemaining, {})
          IN  /\ linkedRemaining' = r.remaining
              /\ sortedInos' = sortSetByNlink(r.resultSet)
    /\ UNCHANGED <<envvars, fsvars, Stats, walked, pc, remainingInos, srcIno, dstIno,
                   srcSI, dstSI, dstPaths, out>>

NextGraph ==
    \/ AddLinkableInos
    \/ SortedLinks
    \/ linkedInoSetsYield
    \/ CloseLinks

SpecGraph == InitOfGraph /\ [][NextGraph]_vars

\* the inodes joined to the ones of S by a chain of edges of LinkedInos
RECURSIVE Reachable(_)
Reachable(S) ==
    LET T == S \cup UNION {LinkedInos[i] : i \in S \cap DOMAIN LinkedInos}
    IN  IF T = S THEN S ELSE Reachable(T)

\* C33: linkedInoSet(i) is the connected component of i in LinkedInos, i alone
\* when it has no edge; every set linkedInoSets yields is the whole component
\* of a start inode not yielded before, the inodes yielded are dropped from
\* what is left to yield and no others are, what is left starts as all the
\* inodes with an edge and is empty at the close: every component is yielded
\* exactly once; LinkedInos is not modified by either.
C33_Components ==
    /\ [](/\ \A i \in GraphInos : linkedInoSet(i) = Reachable({i})
          /\ pc \in {"sets", "done"} =>
                /\ \A i \in DOMAIN linkedRemaining :
                      /\ Reachable({i}) \subseteq DOMAIN linkedRemaining
                      /\ linkedRemaining[i] = LinkedInos[i]
                /\ pc = "done" => DOMAIN linkedRemaining = {})
    /\ [][/\ pc' # "walk" => LinkedInos' = LinkedInos
          /\ (pc = "walk" /\ pc' = "sets") => linkedRemaining' = LinkedInos
          /\ (pc = "sets" /\ pc' = "sets") =>
                LET yielded == Range(sortedInos')
                IN  /\ \E startIno \in DOMAIN linkedRemaining :
                          yielded = Reachable({startIno})
                    /\ DOMAIN linkedRemaining' = DOMAIN linkedRemaining \ yielded
         ]_vars

\* two components were yielded, the second of them with an inode two edges
\* away from another, and nothing is left to yield
C33_Witness ==
    /\ pc = "done"
    /\ \E i, j \in DOMAIN LinkedInos : j \notin Reachable({i})
    /\ \E i \in Range(sortedInos) :
          /\ Cardinality(LinkedInos[i]) = 1
          /\ Reachable({i}) = Range(sortedInos)

-----------------------------------------------------------------------------
(* Read errors of the content comparison *)

\* the cached inodes whose comparison with the file of the pathname fails
\* with a read error
ReadErrors(p) == {c \in Comparable(p) : areFileContentsEqualErr(c, tree[p].Ino)}

\* the search treated every read error as "not equal" and went on: no edge to
\* an inode that could not be compared, equal comparisons counted for the
\* match only, and without a match every comparable inode compared
ReadErrorsUnequal(p) ==
    LET ino == tree[p].Ino
        new == IF ino \in DOMAIN LinkedInos' THEN LinkedInos'[ino] ELSE {}
    IN  /\ new \cap ReadErrors(p) = {}
        /\ Stats'.EqualComparisonCount - Stats.EqualComparisonCount = Cardinality(new)
        /\ Unmatched(p) =>
              Stats'.ComparisonCount - Stats.ComparisonCount = Cardinality(Comparable(p))

\* the step left something in the statistics besides its counts of inodes,
\* comparisons, equal comparisons and digests
ErrorRecorded ==
    Stats' # [Stats EXCEPT !.InodeCount = Stats'.InodeCount,
                           !.ComparisonCount = Stats'.ComparisonCount,
                           !.EqualComparisonCount = Stats'.EqualComparisonCount,
                           !.DigestComputedCount = Stats'.DigestComputedCount]

\* the step searched, every comparable inode was compared and a comparison
\* failed with a read error
ComparedWithReadError(p) ==
    /\ Searches(p)
    /\ ReadErrors(p) # {}
    /\ Stats'.ComparisonCount - Stats.ComparisonCount = Cardinality(Comparable(p))

\* C34: when the content comparison of a pair fails with a read error, the
\* pair is taken as unequal (no edge, no equal comparison counted), the search
\* goes on with the next cached inode, and the error is recorded in the
\* statistics.
C34_ReadErrorRecorded ==
    [][\A p \in IngestedNow :
          ComparedWithReadError(p) => (ReadErrorsUnequal(p) /\ ErrorRecorded)
      ]_vars

-----------------------------------------------------------------------------
(* The path records while planning *)

\* the places a path is recorded at under an inode, and under any inode
RecordedAt(paths, ino, ps) ==
    IF ino \notin DOMAIN paths THEN {}
    ELSE UNION {{<<ino, fn, k>> : k \in {n \in DOMAIN paths[ino][fn] : paths[ino][fn][n] = ps}} :
                  fn \in DOMAIN paths[ino]}

PathCount(paths, ps) ==
    Cardinality(UNION {RecordedAt(paths, ino, ps) : ino \in DOMAIN paths})

AllPathsplits == {SplitPathname(p) : p \in DOMAIN tree}

\* the paths recorded under a filename of an inode, none if there is no entry
PathsOf(paths, ino, fn) ==
    IF ino \in DOMAIN paths /\ fn \in DOMAIN paths[ino] THEN paths[ino][fn] ELSE <<>>

\* C35: while planning, each pair sent takes exactly its dst path out of the
\* record of the dst inode and appends it to the record of the src inode,
\* leaving every other record alone; no path is sent as a dst twice; and no
\* step of planning changes how many times a path is recorded over all inodes.
C35_PathsMoved ==
    /\ [](\A j, k \in DOMAIN out : j # k => out[j].Dst.Pathsplit # out[k].Dst.Pathsplit)
    /\ [][pc # "walk" =>
            /\ \A ps \in AllPathsplits : PathCount(InoPaths', ps) = PathCount(InoPaths, ps)
            /\ pc # "sent" => InoPaths' = InoPaths
            /\ pc = "sent" =>
                  LET dstPath == out[Len(out)].Dst.Pathsplit
                  IN  /\ \A ps \in AllPathsplits :
                            Cardinality(RecordedAt(InoPaths', dstIno, ps)) =
                               Cardinality(RecordedAt(InoPaths, dstIno, ps))
                                  - (IF ps = dstPath THEN 1 ELSE 0)
                      /\ \A fn \in {"f", "g"} :
                            PathsOf(InoPaths', srcIno, fn) =
                               IF fn = dstPath.Filename
                               THEN Append(PathsOf(InoPaths, srcIno, fn), dstPath)
                               ELSE PathsOf(InoPaths, srcIno, fn)
                      /\ \A i \in DOMAIN InoPaths \ {srcIno, dstIno} :
                            InoPaths'[i] = InoPaths[i]
         ]_vars

\* planning is over; with SameName two pairs were sent and a dst inode kept
\* a path of another name
C35_Witness ==
    /\ pc = "done"
    /\ MyOptions.SameName
    /\ Len(out) >= 2
    /\ \E i \in DOMAIN InoStatInfo, k \in DOMAIN out :
          /\ out[k].Dst.Info.Ino = i
          /\ \E fn \in DOMAIN InoPaths[i] : InoPaths[i][fn] # <<>>

-----------------------------------------------------------------------------
(* The planner comes to an end *)

\* the inodes of the component at hand that sendLinkedPairs may still take
\* as src: those on its two lists and the dst it is sending the paths of
PendingInos ==
    Range(sortedInos) \cup Range(remainingInos)
       \cup (IF pc \in {"paths", "sent"} THEN {dstIno} ELSE {})

\* where the planner stands in its loops, last places first
LoopRank ==
    CASE pc = "sets"  -> 1
      [] pc = "outer" -> 2
      [] pc = "sent"  -> 2 * Len(dstPaths) + 2
      [] pc = "paths" -> 2 * Len(dstPaths) + 3
      [] pc = "inner" -> 2 * Cardinality(DOMAIN tree) + 4
      [] OTHER        -> 0

\* what is left to do: the inodes linkedInoSets has not yielded, the inodes
\* pending in the component, the inodes left for the inner loop, the place in
\* the loops
Variant ==
    <<Cardinality(DOMAIN linkedRemaining),
      Cardinality(PendingInos),
      Len(sortedInos) + (IF pc \in {"paths", "sent"} THEN 1 ELSE 0),
      LoopRank>>

\* a comes before b in the lexicographic order
LexLess(a, b) ==
    \E k \in DOMAIN a : a[k] < b[k] /\ \A j \in 1 .. k - 1 : a[j] = b[j]

\* C36: the planner comes to an end: every step of it brings down what is
\* left to do, which cannot go down for ever; the inode an outer iteration
\* takes as src leaves the pending inodes for good (no inode is pending twice,
\* none is added), so a component of n inodes gets at most n outer iterations,
\* also when inodes go through remainingInos; the planner does not stop for
\* want of a src path, and at the close no component and no inode is left.
C36_Terminates ==
    /\ [](/\ Len(sortedInos) + Len(remainingInos)
               + (IF pc \in {"paths", "sent"} THEN 1 ELSE 0) = Cardinality(PendingInos)
          /\ pc \in {"inner", "paths", "sent"} => srcIno \notin PendingInos
          /\ pc = "done" => (DOMAIN linkedRemaining = {} /\ PendingInos = {})
          /\ pc # "panic")
    /\ [][/\ pc # "walk" => LexLess(Variant', Variant)
          /\ PicksSrc => (srcIno' \in PendingInos /\ PendingInos' = PendingInos \ {srcIno'})
          /\ pc \in {"outer", "inner", "paths", "sent"} => PendingInos' \subseteq PendingInos
         ]_vars

\* the channel is closed after a component of three inodes went through
\* remainingInos: its second src was sent a pair
C36_Witness ==
    /\ pc = "done"
    /\ Cardinality(DOMAIN LinkedInos) = NumInos
    /\ \E j, k \in DOMAIN out : out[j].Src.Info.Ino # out[k].Src.Info.Ino

-----------------------------------------------------------------------------
(* The stream of pairs from the planner to its consumer *)

\* the pairs the consumer has received from SortedLinks' channel
Received == IF "received" \in DOMAIN linker THEN linker.received ELSE <<>>

\* faulty variant: the send does not wait for the consumer
sendCompletedUnreceived(sent, received) == TRUE

\* out := make(chan I.PathInfoPair); out <- pair: the channel has no buffer,
\* the send is over when the consumer has received the pair
sendCompleted(sent, received) == Len(sent) = Len(received)

\* the consumer of SortedLinks' channel receives the pair the planner is
\* sending
ReceivePair ==
    /\ Len(Received) < Len(out)
    /\ linker' = [received |-> Append(Received, out[Len(Received) + 1])] @@ linker
    /\ UNCHANGED <<disk, tree, unlinkedvars>>

\* sendLinkedPairs goes on after the send
ApplyLinkReceived ==
    /\ sendCompleted(out, Received)
    /\ ApplyLink

NextStream ==
    \/ Ingest
    \/ SortedLinks
    \/ NextLinkedSet
    \/ CloseLinks
    \/ NextSrc
    \/ NextDst
    \/ NextDstPath
    \/ ReceivePair
    \/ ApplyLinkReceived

SpecStream == InitOfLinks /\ [][NextStream]_vars

\* the planner sends a pair in this step
Emits == Len(out') = Len(out) + 1

\* C37: the planner never has more than one pair sent and not received, and
\* goes on after a send only once the pair is received; the consumer receives
\* the pairs in the order they were sent; when the planner sends the next
\* pair, the one before it is received, counted, its dst path recorded under
\* its src inode and no more under its dst inode, and the link counts recorded
\* for the two inodes are those after that link.
C37_BackPressure ==
    /\ [](/\ Len(out) - Len(Received) \in {0, 1}
          /\ Received = SubSeq(out, 1, Len(Received)))
    /\ [][/\ (pc = "sent" /\ pc' # "sent") => Received = out
          /\ (Emits /\ out # <<>>) =>
                LET last == out[Len(out)]
                    s    == last.Src.Info.Ino
                    d    == last.Dst.Info.Ino
                IN  /\ Received = out
                    /\ Stats.NewLinkCount = Len(out)
                    /\ RecordedAt(InoPaths, s, last.Dst.Pathsplit) # {}
                    /\ RecordedAt(InoPaths, d, last.Dst.Pathsplit) = {}
                    /\ statOf(InoStatInfo, s).Nlink >= last.Src.Info.Nlink + 1
                    /\ statOf(InoStatInfo, d).Nlink =
                          IF d \in DOMAIN InoStatInfo THEN last.Dst.Info.Nlink - 1 ELSE 0
         ]_vars

\* the planner is sending its third pair, the first two are received
C37_Witness ==
    /\ pc = "sent"
    /\ Len(out) = 3
    /\ Len(Received) = 2

-----------------------------------------------------------------------------
(* The shape of the buckets and the edges *)

\* C38: an inode is held by one bucket at most; every edge of LinkedInos
\* joins an inode held by a bucket and an inode held by none; a recorded inode
\* held by no bucket has exactly one linked inode; no two inodes held by
\* buckets are in one component.
C38_StarShape ==
    /\ \A h1, h2 \in DOMAIN InoHashes : h1 # h2 => InoHashes[h1] \cap InoHashes[h2] = {}
    /\ \A i \in DOMAIN LinkedInos : \A j \in LinkedInos[i] :
          (i \in BucketInos) # (j \in BucketInos)
    /\ \A i \in DOMAIN InoStatInfo \ BucketInos :
          i \in DOMAIN LinkedInos /\ Cardinality(LinkedInos[i]) = 1
    /\ \A a, b \in BucketInos : a # b => b \notin linkedInoSet(a)

\* two inodes held by no bucket are linked to the one inode of a bucket
C38_Witness ==
    /\ Cardinality(BucketInos) = 1
    /\ \E i \in BucketInos : i \in DOMAIN LinkedInos /\ Cardinality(LinkedInos[i]) = 2
    /\ Cardinality(DOMAIN InoStatInfo \ BucketInos) = 2

-----------------------------------------------------------------------------
(* A pathname given to FindIdenticalFiles more than once *)

\* how many times the runs here give one pathname to FindIdenticalFiles
MaxIngests == 2

\* Run over roots that overlap, or a caller of Linkable.FindIdenticalFiles:
\* a pathname already ingested is ingested again
Reingest ==
    /\ pc = "walk"
    /\ \E pathname \in walked :
          /\ routedHere(pathname)
          /\ PathCount(InoPaths, SplitPathname(pathname)) < MaxIngests
          /\ findIdenticalFiles(pathname)
    /\ UNCHANGED <<envvars, walked, pc, planvars>>

InitOfReingest == InitEngine /\ InitIdentical

NextReingest ==
    \/ Ingest
    \/ Reingest
    \/ SortedLinks
    \/ NextLinkedSet
    \/ CloseLinks
    \/ NextSrc
    \/ NextDst
    \/ NextDstPath
    \/ ApplyLink

SpecReingest == InitOfReingest /\ [][NextReingest]_vars

\* C39: the link count recorded for an inode is never less than the number of
\* its recorded paths, so the planner never decrements a dst link count of 0:
\* no recorded link count wraps to the largest 32-bit value and no inode removed
\* at link count 0 is recorded again, also when a pathname is ingested more than
\* once.
C39_NlinkCoversPaths ==
    /\ [](\A ino \in DOMAIN InoStatInfo :
             /\ InoStatInfo[ino].Nlink >= Cardinality(PathRecords(InoPaths, ino))
             /\ InoStatInfo[ino].Nlink # Uint32Max)
    /\ [][pc = "sent" =>
             /\ dstSI.Nlink > 0
             /\ DOMAIN InoStatInfo' \subseteq DOMAIN InoStatInfo
         ]_vars

-----------------------------------------------------------------------------
(* The groups of existing links *)

\* Runs over a tree where inode 1 has all the paths but the last, under the
\* filenames f and g, and inode 2 the last: identical files, existing links
\* stored
InitGroups ==
    /\ \E names \in [2 .. NumPaths -> {"f", "g"}] :
          tree = [p \in 1 .. NumPaths |->
                    [Ino |-> IF p < NumPaths THEN 1 ELSE 2,
                     Filename |-> IF p = 1 THEN "f" ELSE names[p]]]
    /\ disk = [i \in Inos |->
                 Inode(i, BaseFile, Cardinality({p \in DOMAIN tree : tree[p].Ino = i}))]
    /\ MyOptions = DefaultOptions
    /\ MaxNLinks = 2 * NumPaths

InitOfGroups == InitEngine /\ InitGroups

SpecGroups == InitOfGroups /\ [][Next]_vars

\* the paths of the inode ingested so far, and the groups of existing links
\* recorded under one of its paths
IngestedPathsOf(ino) == {p \in walked : routedHere(p) /\ tree[p].Ino = ino}

GroupsOf(ino) ==
    {srcP \in DOMAIN Stats.ExistingLinks : tree[srcP.Dirname].Ino = ino}

\* C40: once k >= 2 paths of an inode are ingested, its k - 1 existing links
\* are all recorded under one src path: the results hold one group for the
\* inode, with k - 1 destinations, and every destination of a group is a file
\* of the size of the group's src.
C40_OneGroupPerInode ==
    /\ \A ino \in Inos :
          LET k == Cardinality(IngestedPathsOf(ino))
          IN  k >= 2 =>
                 /\ Cardinality(GroupsOf(ino)) = 1
                 /\ \A srcP \in GroupsOf(ino) : Len(Stats.ExistingLinks[srcP]) = k - 1
    /\ \A srcP \in DOMAIN Stats.ExistingLinks :
          \A n \in DOMAIN Stats.ExistingLinks[srcP] :
             Lstat(Stats.ExistingLinks[srcP][n].Dirname).Size = Lstat(srcP.Dirname).Size

====
